---------------------------- MODULE Spec2Model ----------------------------
(***************************************************************************)
(* Model of the client-side analytics, filtering and drill-down engine of  *)
(* the DPWH contracts dashboard (frontend/src).                            *)
(*                                                                         *)
(* Strings are TLA+ strings; a character is a string of length one.  The   *)
(* JavaScript string methods the code uses (split, startsWith, includes,   *)
(* replace, toLowerCase, encodeURIComponent, decodeURIComponent) are       *)
(* operators that compute what the methods compute.                        *)
(***************************************************************************)
EXTENDS Integers, Sequences, FiniteSets, TLC

(***************************************************************************)
(* JavaScript values.                                                      *)
(***************************************************************************)
\* null / undefined of a string-typed field or variable
NULL == "<null>"

\* JavaScript truthiness of a string-or-null value
Truthy(v) == v # NULL /\ v # ""

\* a nullable number is <<>> (null) or <<n>>
NoNum == <<>>

\* JavaScript truthiness of a nullable number (null and 0 are falsy)
TruthyNum(v) == v # NoNum /\ v[1] # 0

CharAt(s, i) == SubSeq(s, i, i)

StartsWith(s, p) == Len(s) >= Len(p) /\ SubSeq(s, 1, Len(p)) = p

\* String.prototype.indexOf(p, from), 1-based; 0 when p does not occur
IndexOf(s, p, from) ==
    LET cand == {i \in from..(Len(s) - Len(p) + 1) : SubSeq(s, i, i + Len(p) - 1) = p}
    IN  IF cand = {} THEN 0 ELSE CHOOSE i \in cand : \A j \in cand : i <= j

\* String.prototype.includes
Includes(s, p) == IndexOf(s, p, 1) # 0

\* String.prototype.split(sep) for a non-empty separator
RECURSIVE Split(_, _)
Split(s, sep) ==
    LET i == IndexOf(s, sep, 1)
    IN  IF i = 0 THEN <<s>>
        ELSE <<SubSeq(s, 1, i - 1)>> \o Split(SubSeq(s, i + Len(sep), Len(s)), sep)

\* String.prototype.replace(a, b) with a string pattern: first occurrence only
Replace(s, a, b) ==
    LET i == IndexOf(s, a, 1)
    IN  IF i = 0 THEN s
        ELSE SubSeq(s, 1, i - 1) \o b \o SubSeq(s, i + Len(a), Len(s))

\* Array.prototype.join
RECURSIVE Join(_, _)
Join(parts, sep) ==
    IF parts = <<>> THEN ""
    ELSE IF Len(parts) = 1 THEN parts[1]
    ELSE parts[1] \o sep \o Join(Tail(parts), sep)

UpperChars == "ABCDEFGHIJKLMNOPQRSTUVWXYZ"
LowerChars == "abcdefghijklmnopqrstuvwxyz"

LowerChar(c) ==
    LET i == IndexOf(UpperChars, c, 1)
    IN  IF i = 0 THEN c ELSE CharAt(LowerChars, i)

\* String.prototype.toLowerCase
RECURSIVE ToLowerCase(_)
ToLowerCase(s) ==
    IF s = "" THEN "" ELSE LowerChar(CharAt(s, 1)) \o ToLowerCase(Tail(s))

\* characters encodeURIComponent leaves alone
UnreservedChars ==
    UpperChars \o LowerChars \o "0123456789" \o "-_.!~*'()"

\* the percent escapes of the other ASCII characters the data can hold
EscapeTable ==
    << <<" ", "%20">>, <<"#", "%23">>, <<"$", "%24">>, <<"%", "%25">>,
       <<"&", "%26">>, <<"+", "%2B">>, <<",", "%2C">>, <<"/", "%2F">>,
       <<":", "%3A">>, <<";", "%3B">>, <<"=", "%3D">>, <<"?", "%3F">>,
       <<"@", "%40">> >>

EscapeOf(c) ==
    LET hit == {i \in 1..Len(EscapeTable) : EscapeTable[i][1] = c}
    IN  IF hit = {} THEN c ELSE EscapeTable[CHOOSE i \in hit : TRUE][2]

\* encodeURIComponent
RECURSIVE EncodeURIComponent(_)
EncodeURIComponent(s) ==
    IF s = "" THEN ""
    ELSE LET c == CharAt(s, 1)
         IN  (IF Includes(UnreservedChars, c) THEN c ELSE EscapeOf(c))
             \o EncodeURIComponent(Tail(s))

\* what decodeURIComponent raises on a malformed escape
URIError == "<URIError>"

UnescapeOf(e) ==
    LET hit == {i \in 1..Len(EscapeTable) : EscapeTable[i][2] = e}
    IN  IF hit = {} THEN URIError ELSE EscapeTable[CHOOSE i \in hit : TRUE][1]

\* decodeURIComponent: every %XX is replaced by its character
RECURSIVE DecodeURIComponent(_)
DecodeURIComponent(s) ==
    IF s = "" THEN ""
    ELSE IF CharAt(s, 1) # "%"
    THEN LET rest == DecodeURIComponent(Tail(s))
         IN  IF rest = URIError THEN URIError ELSE CharAt(s, 1) \o rest
    ELSE IF Len(s) < 3 THEN URIError
    ELSE LET c    == UnescapeOf(SubSeq(s, 1, 3))
             rest == DecodeURIComponent(SubSeq(s, 4, Len(s)))
         IN  IF c = URIError \/ rest = URIError THEN URIError ELSE c \o rest


(***************************************************************************)
(* Record model (types/contracts).                                         *)
(***************************************************************************)
\* a Contract; the fields no modelled code reads are left out
Contract(id, desc, n1, i1, n2, reg, off, fund, cost, st, yr) ==
    [contract_id |-> id, description |-> desc,
     contractor_name_1 |-> n1, contractor_id_1 |-> i1,
     contractor_name_2 |-> n2, contractor_name_3 |-> NULL,
     contractor_name_4 |-> NULL,
     region |-> reg, implementing_office |-> off, source_of_funds |-> fund,
     cost_php |-> cost, status |-> st, year |-> yr, effectivity_date |-> NULL]

\* the contract with effectivity_date d
Dated(c, d) == [c EXCEPT !.effectivity_date = d]

\* Array.prototype.filter(Boolean) on a list of nullable strings
RECURSIVE FilterTruthy(_)
FilterTruthy(xs) ==
    IF xs = <<>> THEN <<>>
    ELSE (IF Truthy(xs[1]) THEN <<xs[1]>> ELSE <<>>) \o FilterTruthy(Tail(xs))

getContractorNames(c) ==
    FilterTruthy(<<c.contractor_name_1, c.contractor_name_2,
                   c.contractor_name_3, c.contractor_name_4>>)

\* cost_php || 0
CostOrZero(c) == IF TruthyNum(c.cost_php) THEN c.cost_php[1] ELSE 0

\* Array.prototype.find: the first element that satisfies P, or NotFound
NotFound == [contract_id |-> NULL]

FindFirst(xs, P(_)) ==
    LET hit == {i \in 1..Len(xs) : P(xs[i])}
    IN  IF hit = {} THEN NotFound
        ELSE xs[CHOOSE i \in hit : \A j \in hit : i <= j]

(***************************************************************************)
(* Aggregation: a Map filled in record order, then a stable sort by        *)
(* total_value descending (utils/contractsAnalytics and the drill-down).   *)
(***************************************************************************)
\* a list built by map/from is materialised: its elements are computed once
ArrayFrom(f) == <<>> \o f

RECURSIVE SumSeq(_)
SumSeq(xs) == IF xs = <<>> THEN 0 ELSE xs[1] + SumSeq(Tail(xs))

\* the keys of all records, in the order contracts.forEach meets them
RECURSIVE Flatten(_)
Flatten(keys) == IF keys = <<>> THEN <<>> ELSE keys[1] \o Flatten(Tail(keys))

\* the keys of a Map in insertion order: the first occurrence of every key
RECURSIVE MapKeys(_, _)
MapKeys(flat, have) ==
    IF flat = <<>> THEN <<>>
    ELSE IF flat[1] \in have THEN MapKeys(Tail(flat), have)
    ELSE <<flat[1]>> \o MapKeys(Tail(flat), have \cup {flat[1]})

\* how many of the keys are `name`
Times(keys, name) == Cardinality({j \in 1..Len(keys) : keys[j] = name})

\* the number n / d as the fraction it is; with d = 0 it is NaN or an
\* Infinity
Divide(n, d) == [num |-> n, den |-> d]

\* data.total_value / Math.max(1, data.count)
AvgOf(data) ==
    data @@ [avg_value |-> Divide(data.total_value,
                                  IF data.count > 1 THEN data.count ELSE 1)]

\* the entry the Map holds for `name` after contracts.forEach:
\* total_value += cost_php || 0 and count += 1 for every occurrence
MapEntry(cs, keys, name) ==
    AvgOf([name        |-> name,
           total_value |-> SumSeq(ArrayFrom([i \in 1..Len(cs) |->
                                      Times(keys[i], name) * CostOrZero(cs[i])])),
           count       |-> SumSeq(ArrayFrom([i \in 1..Len(cs) |-> Times(keys[i], name)]))])

\* Array.from(map.values())
MapValues(cs, keys, names) ==
    ArrayFrom([p \in 1..Len(names) |-> MapEntry(cs, keys, names[p])])

GroupKeys(cs, keys) == MapValues(cs, keys, MapKeys(Flatten(keys), {}))

\* one pass of contracts.forEach: KeysOf(c) lists the groups c contributes to
GroupBy(cs, KeysOf(_)) == GroupKeys(cs, ArrayFrom([i \in 1..Len(cs) |-> KeysOf(cs[i])]))

\* xs in the order given by rank (a bijection onto 1..Len(xs))
Permute(xs, rank) ==
    ArrayFrom([p \in 1..Len(xs) |-> xs[CHOOSE i \in 1..Len(xs) : rank[i] = p]])

\* Array.prototype.sort (stable): Before(a, b) iff the comparator is negative
SortBy(xs, Before(_, _)) ==
    Permute(xs, ArrayFrom([i \in 1..Len(xs) |->
                    1 + Cardinality({j \in 1..Len(xs) :
                            Before(xs[j], xs[i]) \/ (~Before(xs[i], xs[j]) /\ j < i)})]))

\* .sort((a, b) => b.total_value - a.total_value)
ByTotalDesc(a, b) == a.total_value > b.total_value

OrUnknown(v) == IF Truthy(v) THEN v ELSE "Unknown"

\* only the first contractor of a record is counted
KeysFirstContractor(c) ==
    IF getContractorNames(c) = <<>> THEN <<>> ELSE <<getContractorNames(c)[1]>>

KeysContractor(c) == getContractorNames(c)
\* a record without region put in no group
KeysRegionKnown(c) == IF Truthy(c.region) THEN <<c.region>> ELSE <<>>

KeysRegionU(c)  == <<OrUnknown(c.region)>>
KeysOfficeU(c)  == <<OrUnknown(c.implementing_office)>>
KeysStatusU(c)  == <<OrUnknown(c.status)>>
KeysFundsU(c)   == <<OrUnknown(c.source_of_funds)>>

aggregateByContractor(cs)         == SortBy(GroupBy(cs, KeysContractor), ByTotalDesc)
aggregateByRegion(cs)             == SortBy(GroupBy(cs, KeysRegionU), ByTotalDesc)
aggregateByImplementingOffice(cs) == SortBy(GroupBy(cs, KeysOfficeU), ByTotalDesc)
aggregateByStatus(cs)             == SortBy(GroupBy(cs, KeysStatusU), ByTotalDesc)
aggregateBySourceOfFunds(cs)      == SortBy(GroupBy(cs, KeysFundsU), ByTotalDesc)

\* getContractsAggregates: the summary and the five entity aggregations
\* (by_year, by_month and by_quarter are not followed)
getContractsAggregates(cs) ==
    [summary |->
        <<[count       |-> Len(cs),
           total_value |-> SumSeq(ArrayFrom([i \in 1..Len(cs) |-> CostOrZero(cs[i])])),
           avg_value   |-> IF Len(cs) > 0
                           THEN Divide(SumSeq(ArrayFrom([i \in 1..Len(cs) |->
                                                            CostOrZero(cs[i])])), Len(cs))
                           ELSE Divide(0, 1)]>>,
     by_contractor          |-> aggregateByContractor(cs),
     by_region              |-> aggregateByRegion(cs),
     by_implementing_office |-> aggregateByImplementingOffice(cs),
     by_status              |-> aggregateByStatus(cs),
     by_source_of_funds     |-> aggregateBySourceOfFunds(cs)]

(***************************************************************************)
(* Drill-down controller: derived data (ContractsAnalyticsModal).          *)
(***************************************************************************)
EntityTypes == {"contractor", "region", "implementing_office", "status", "source_of_funds"}

allTabs == <<"contracts", "contractors", "regions", "offices", "statuses", "funds">>

TabNames == {allTabs[i] : i \in 1..Len(allTabs)}

\* the initial DrillDownState of useState
ClosedDrillDown == [open |-> FALSE, breadcrumbs |-> <<>>]

Breadcrumb(type, id, name) == [entityType |-> type, entityId |-> id, entityName |-> name]

\* the switch of drillDownContracts: one breadcrumb's equality predicate
MatchesBreadcrumb(contract, bc) ==
    CASE bc.entityType = "contractor"          -> contract.contractor_id_1 = bc.entityId
      [] bc.entityType = "region"              -> contract.region = bc.entityId
      [] bc.entityType = "implementing_office" -> contract.implementing_office = bc.entityId
      [] bc.entityType = "status"              -> contract.status = bc.entityId
      [] bc.entityType = "source_of_funds"     -> contract.source_of_funds = bc.entityId
      [] OTHER                                 -> FALSE

\* drillDownContracts with `some` in place of `every`: the union of the breadcrumbs
drillDownContractsSome(cs, dd) ==
    IF ~dd.open \/ Len(dd.breadcrumbs) = 0 THEN <<>>
    ELSE LET Keep(c) == \E i \in 1..Len(dd.breadcrumbs) :
                            MatchesBreadcrumb(c, dd.breadcrumbs[i])
         IN  SelectSeq(cs, Keep)

\* the records that match ALL breadcrumbs; [] when the drill-down is closed
drillDownContracts(cs, dd) ==
    IF ~dd.open \/ Len(dd.breadcrumbs) = 0 THEN <<>>
    ELSE LET Keep(c) == \A i \in 1..Len(dd.breadcrumbs) :
                            MatchesBreadcrumb(c, dd.breadcrumbs[i])
         IN  SelectSeq(cs, Keep)

\* a template literal renders null as 'null'
TemplateItem(v) == IF v = NULL THEN "null" ELSE v

\* a.localeCompare(b) < 0 for the characters of the model's lower-cased
\* field values: space, then digits, then letters
RECURSIVE LocaleLess(_, _)
LocaleLess(a, b) ==
    IF b = "" THEN FALSE
    ELSE IF a = "" THEN TRUE
    ELSE IF CharAt(a, 1) = CharAt(b, 1)
         THEN LocaleLess(SubSeq(a, 2, Len(a)), SubSeq(b, 2, Len(b)))
    ELSE IndexOf(" 0123456789abcdefghijklmnopqrstuvwxyz", CharAt(a, 1), 1)
            < IndexOf(" 0123456789abcdefghijklmnopqrstuvwxyz", CharAt(b, 1), 1)

\* the comparator of the drill-down contracts tab answers a negative number:
\* a missing cost or year counts as 0, a missing id or status as ''; any other
\* field leaves the order as it is
DrillDownSortsBefore(a, b, field, direction) ==
    IF field \in {"cost_php", "year"}
    THEN LET aVal == IF TruthyNum(a[field]) THEN a[field][1] ELSE 0
             bVal == IF TruthyNum(b[field]) THEN b[field][1] ELSE 0
         IN  IF direction = "asc" THEN aVal - bVal < 0 ELSE bVal - aVal < 0
    ELSE IF field \in {"contract_id", "status"}
    THEN LET aVal == ToLowerCase(IF Truthy(a[field]) THEN a[field] ELSE "")
             bVal == ToLowerCase(IF Truthy(b[field]) THEN b[field] ELSE "")
         IN  IF direction = "asc" THEN LocaleLess(aVal, bVal) ELSE LocaleLess(bVal, aVal)
    ELSE FALSE

\* the sorted list of paginatedDrillDownContracts, before the page is cut
sortedDrillDownContracts(ddcs, field, direction) ==
    SortBy(ddcs, LAMBDA a, b : DrillDownSortsBefore(a, b, field, direction))

KeysRegion(c) == IF Truthy(c.region) THEN <<c.region>> ELSE <<>>
KeysOffice(c) == IF Truthy(c.implementing_office) THEN <<c.implementing_office>> ELSE <<>>
KeysStatus(c) == IF Truthy(c.status) THEN <<c.status>> ELSE <<>>

\* the aggregates of the drill-down subset, per dimension
drillDownRelatedAggregates(dd, ddcs) ==
    IF ~dd.open \/ Len(ddcs) = 0
    THEN [by_contractor |-> <<>>, by_region |-> <<>>, by_implementing_office |-> <<>>,
          by_status |-> <<>>, by_source_of_funds |-> <<>>]
    ELSE [by_contractor          |-> SortBy(GroupBy(ddcs, KeysContractor), ByTotalDesc),
          by_region              |-> SortBy(GroupBy(ddcs, KeysRegion), ByTotalDesc),
          by_implementing_office |-> SortBy(GroupBy(ddcs, KeysOffice), ByTotalDesc),
          by_status              |-> SortBy(GroupBy(ddcs, KeysStatus), ByTotalDesc),
          by_source_of_funds     |-> SortBy(GroupBy(ddcs, KeysFundsU), ByTotalDesc)]

\* the tab that lists a dimension
TabOfType(type) ==
    CASE type = "contractor"          -> "contractors"
      [] type = "region"              -> "regions"
      [] type = "implementing_office" -> "offices"
      [] type = "status"              -> "statuses"
      [] type = "source_of_funds"     -> "funds"
      [] OTHER                        -> NULL

\* entityTypeMap of the entity row onClick: undefined for the contracts tab
TypeOfTab(tab) ==
    CASE tab = "contractors" -> "contractor"
      [] tab = "regions"     -> "region"
      [] tab = "offices"     -> "implementing_office"
      [] tab = "statuses"    -> "status"
      [] tab = "funds"       -> "source_of_funds"
      [] OTHER               -> NULL

\* visibleTabs without the hiddenTabs filter
visibleTabsUnfiltered(breadcrumbs) == allTabs

\* the tabs shown: every tab whose dimension is in the breadcrumb trail is hidden
visibleTabs(breadcrumbs) ==
    LET hiddenTabs == {TabOfType(breadcrumbs[i].entityType) : i \in 1..Len(breadcrumbs)}
        Shown(tab) == tab \notin hiddenTabs
    IN  SelectSeq(allTabs, Shown)

\* the entity list of the active tab (sortField total_value, sortDirection desc)
currentEntityData(tab, aggs) ==
    LET data == CASE tab = "contractors" -> aggs.by_contractor
                  [] tab = "regions"     -> aggs.by_region
                  [] tab = "offices"     -> aggs.by_implementing_office
                  [] tab = "statuses"    -> aggs.by_status
                  [] tab = "funds"       -> aggs.by_source_of_funds
                  [] OTHER               -> <<>>
    IN  SortBy(data, ByTotalDesc)

\* Math.ceil(n / size)
CeilDiv(n, size) == (n + size - 1) \div size

\* a window that also takes the first record of the next page
PageSliceInclusive(xs, page, size) ==
    LET start == (page - 1) * size
        end   == IF page * size + 1 < Len(xs) THEN page * size + 1 ELSE Len(xs)
    IN  IF start >= Len(xs) THEN <<>> ELSE SubSeq(xs, start + 1, end)

\* slice((page - 1) * size, page * size)
PageSlice(xs, page, size) ==
    LET start == (page - 1) * size
        end   == IF page * size < Len(xs) THEN page * size ELSE Len(xs)
    IN  IF start >= Len(xs) THEN <<>> ELSE SubSeq(xs, start + 1, end)

pageSize          == 20
drillDownPageSize == 20
entityPageSize    == 20

(***************************************************************************)
(* URL hash <-> DrillDownState (ContractsAnalyticsModal).                  *)
(***************************************************************************)
\* breadcrumbs.map(b => `${b.entityType}/${encodeURIComponent(b.entityId)}`).join('/')
PathOf(breadcrumbs) ==
    Join([i \in 1..Len(breadcrumbs) |->
            breadcrumbs[i].entityType \o "/" \o EncodeURIComponent(breadcrumbs[i].entityId)],
         "/")

\* navigateWithTab: the tab parameter follows the hash unless the tab is 'contracts'
navigateWithTab(h, currentTab) ==
    IF currentTab # "contracts" THEN h \o "?tab=" \o currentTab ELSE h

\* the hash the breadcrumb button of breadcrumb `index` (1-based) navigates to
BreadcrumbHash(breadcrumbs, index, tab) ==
    navigateWithTab("#analytics/" \o PathOf(SubSeq(breadcrumbs, 1, index)), tab)

\* the hash an entity row of the drill-down navigates to
RowHash(breadcrumbs, newEntityType, entityId) ==
    "#analytics/" \o PathOf(breadcrumbs) \o "/" \o newEntityType \o "/"
        \o EncodeURIComponent(entityId) \o "?tab=contracts"

\* the hash a row of the top-level analytics table navigates to
TopHash(entityType, entityId) ==
    "#analytics/" \o entityType \o "/" \o EncodeURIComponent(entityId)

\* the hash the tab button of `tab` navigates to
TabHash(currentHash, tab) ==
    IF tab # "contracts" THEN Split(currentHash, "?")[1] \o "?tab=" \o tab
    ELSE Split(currentHash, "?")[1]

\* const [hashPath, hashQuery] = hash.split('?')
HashPath(h)  == Split(h, "?")[1]

SecondOrNull(xs) == IF Len(xs) >= 2 THEN xs[2] ELSE NULL

HashQuery(h) == SecondOrNull(Split(h, "?"))

\* the value of a key=value pair of a query string
PairValue(pr) ==
    IF Includes(pr, "=") THEN SubSeq(pr, IndexOf(pr, "=", 1) + 1, Len(pr)) ELSE ""

\* decodeURIComponent as URLSearchParams does it: a malformed escape stays
DecodeOrKeep(v, d) == IF d = URIError THEN v ELSE d

\* the value of the first pair of `pairs` called name, or null
RECURSIVE FirstParam(_, _)
FirstParam(pairs, name) ==
    IF pairs = <<>> THEN NULL
    ELSE IF Split(pairs[1], "=")[1] = name
    THEN DecodeOrKeep(PairValue(pairs[1]), DecodeURIComponent(PairValue(pairs[1])))
    ELSE FirstParam(Tail(pairs), name)

\* new URLSearchParams(query).get(name)
SearchParam(query, name) == FirstParam(Split(query, "&"), name)

\* hashQuery ? new URLSearchParams(hashQuery).get('tab') : null
TabOfQuery(query) == IF Truthy(query) THEN SearchParam(query, "tab") ELSE NULL

TabParam(h) == TabOfQuery(HashQuery(h))

\* contract ? (contract.contractor_name_1 || entityId) : entityId
NameOrId(contract, entityId) ==
    IF contract # NotFound /\ Truthy(contract.contractor_name_1)
    THEN contract.contractor_name_1 ELSE entityId

\* the display name of a breadcrumb parsed from the hash
NameOfId(cs, entityType, entityId) ==
    IF entityType = "contractor"
    THEN LET IsId(c) == c.contractor_id_1 = entityId
         IN  NameOrId(FindFirst(cs, IsId), entityId)
    ELSE entityId

\* newBreadcrumbs.push(...) in front of the breadcrumbs of the later parts;
\* URIError when decodeURIComponent throws anywhere in the loop
PushBreadcrumb(entityType, entityId, rest, cs) ==
    IF entityId = URIError \/ rest = URIError THEN URIError
    ELSE <<Breadcrumb(entityType, entityId, NameOfId(cs, entityType, entityId))>> \o rest

\* one round of the loop of handleHashChange over parts, i += 2
LoopStep(parts, rest, cs) ==
    IF Len(parts) >= 2 /\ parts[1] # "" /\ parts[2] # ""
    THEN PushBreadcrumb(parts[1], DecodeURIComponent(parts[2]), rest, cs)
    ELSE rest

\* the loop of handleHashChange over parts (type/id/type/id/...)
RECURSIVE LoopParts(_, _)
LoopParts(parts, cs) ==
    IF parts = <<>> THEN <<>>
    ELSE LoopStep(parts, LoopParts(IF Len(parts) >= 2 THEN Tail(Tail(parts)) ELSE <<>>, cs), cs)

\* hashPath.split('/contract/')[0], .replace('#analytics/', '').split('/'), loop
ParseBreadcrumbs(hashPath, cs) ==
    LoopParts(Split(Replace(Split(hashPath, "/contract/")[1], "#analytics/", ""), "/"), cs)

\* "Compare breadcrumbs to prevent loops"
isDifferent(newBreadcrumbs, old) ==
    \/ Len(newBreadcrumbs) # Len(old)
    \/ \E i \in 1..Len(newBreadcrumbs) :
          \/ i > Len(old)
          \/ newBreadcrumbs[i].entityType # old[i].entityType
          \/ newBreadcrumbs[i].entityId # old[i].entityId

\* the three branches that end in: if (drillDown.open) setDrillDown(closed)
CloseIfOpen(seen, dd, tab) ==
    IF seen.open
    THEN [drillDown |-> ClosedDrillDown, tab |-> tab, set |-> TRUE]
    ELSE [drillDown |-> dd, tab |-> tab, set |-> FALSE]

\* setDrillDownActiveTab from the tab parameter
TabFromParam(tabParam, tab) ==
    IF Truthy(tabParam) /\ tabParam \in TabNames THEN tabParam
    ELSE IF ~Truthy(tabParam) THEN "contracts"
    ELSE tab

\* the branch of handleHashChange for a hash path that starts '#analytics/'
OnBreadcrumbs(newBreadcrumbs, tabParam, seen, dd, tab) ==
    IF newBreadcrumbs = URIError THEN [drillDown |-> dd, tab |-> tab, set |-> FALSE]
    ELSE IF Len(newBreadcrumbs) > 0
    THEN IF ~seen.open \/ isDifferent(newBreadcrumbs, seen.breadcrumbs)
         THEN [drillDown |-> [open |-> TRUE, breadcrumbs |-> newBreadcrumbs],
               tab |-> TabFromParam(tabParam, tab), set |-> TRUE]
         ELSE [drillDown |-> dd, tab |-> TabFromParam(tabParam, tab), set |-> FALSE]
    ELSE CloseIfOpen(seen, dd, tab)

\* the modal's handleHashChange with `open` true.  `seen` is the drillDown value
\* of the render whose effect registered the listener; dd and tab are the
\* current state.  set tells whether setDrillDown was called.  The listener is
\* registered for hashchange and popstate; a second run with the same closure
\* stores the same values.
handleHashChange(h, seen, cs, dd, tab) ==
    IF StartsWith(HashPath(h), "#analytics/")
    THEN OnBreadcrumbs(ParseBreadcrumbs(HashPath(h), cs), TabParam(h), seen, dd, tab)
    ELSE CloseIfOpen(seen, dd, tab)

(***************************************************************************)
(* Record sets the data layer can hand over.                               *)
(***************************************************************************)
Digits == "0123456789"

\* a two-digit decimal numeral
TwoDigits(n) == CharAt(Digits, (n \div 10) + 1) \o CharAt(Digits, (n % 10) + 1)

\* how many records the paging record set has: more than one page of 20
BigCount == 21

\* one region and status, a distinct implementing office per record
DataBig ==
    [i \in 1..BigCount |->
        Contract("B" \o TwoDigits(i), "road", NULL, NULL, NULL,
                 "R1", "O" \o TwoDigits(i), "F1", <<i>>, "S1", <<2020>>)]

\* two contractors called A with different ids, a contractor C named in slot 2
\* only, values that need escaping, and a record without region and contractor
DataSmall ==
    << Contract("1", "road", "A", "i1", NULL, "R1", "O/1", "F1", <<100>>, "S1", <<2020>>),
       Contract("2", "bridge", "A", "i2", NULL, "IV A", "O/1", "F1", NoNum, "S2", <<2021>>),
       Contract("3", "road", "B", "i3", "C", "R1", "O/1", NULL, <<150>>, "S1", NoNum),
       Contract("4", "dike", NULL, NULL, NULL, NULL, "O/1", "F1", <<70>>, "S2", <<2021>>) >>

DataSets == {DataBig, DataSmall}

(***************************************************************************)
(* The explorer's filter, sort and pagination state (ContractsExplorer).   *)
(***************************************************************************)
AllTime == [type |-> "all_time", year |-> NoNum, quarter |-> NoNum,
            startDate |-> NULL, endDate |-> NULL]

\* minCost, maxCost, valueRange and dateRange are not set
NoRanges == [minCost |-> NoNum, maxCost |-> NoNum,
             valueRange |-> [min |-> NoNum, max |-> NoNum], dateRange |-> AllTime]

\* every list is empty (the explorer's initial filters)
NoLists == [regions |-> <<>>, implementing_offices |-> <<>>, contractors |-> <<>>,
            statuses |-> <<>>, years |-> <<>>, source_of_funds |-> <<>>,
            keywords |-> <<>>]

\* the explorer's initial sortConfig
DefaultSort == [field |-> "cost_php", direction |-> "desc"]

(***************************************************************************)
(* State.                                                                  *)
(***************************************************************************)
VARIABLES
    hash,               \* window.location.hash
    source,             \* the record set the data layer is loading
    loading,            \* ContractsDataContext.loading
    contracts,          \* ContractsDataContext.contracts
    analyticsOpen,      \* ContractsExplorer: the analytics modal is mounted
    drillDown,          \* ContractsAnalyticsModal.drillDown
    seen,               \* the drillDown value the modal's hashchange listener closed over
    drillDownActiveTab,
    drillDownPage,
    entityPage,
    dimension,          \* controls.dimension
    currentPage,        \* page of the top-level analytics table
    navigated,          \* the user has changed the hash by the address bar or Back
    last,               \* the operation that ran last, and the depth it started from
    explorer,           \* ContractsExplorer: filters, sortConfig and pagination
    given,              \* the arguments a pure function is applied to
    result,             \* what the pure functions returned for `given`
    server,             \* the deployed data file and contracts_metadata.json
    cache,              \* the IndexedDB keys the loaders read and write
    loads,              \* the calls of a loader that have been started
    service,            \* the contractsParquetService singleton
    provider            \* the state of ContractsDataProvider

vars == <<hash, source, loading, contracts, analyticsOpen, drillDown, seen,
          drillDownActiveTab, drillDownPage, entityPage, dimension, currentPage,
          navigated, last, explorer, given, result,
          server, cache, loads, service, provider>>

\* the variables of the data layer
ioVars == <<server, cache, loads, service, provider>>

\* the variables of the page
uiVars == <<hash, source, loading, contracts, analyticsOpen, drillDown, seen,
            drillDownActiveTab, drillDownPage, entityPage, dimension, currentPage,
            navigated, last>>

\* a value IndexedDB or a variable does not hold (undefined); a value x that
\* it holds is <<x>>
Undefined == <<>>

\* the data layer before ContractsDataProvider mounts: version 1 is deployed,
\* nothing is cached, no load has started, the service is not initialized
DataLayerIdle ==
    /\ server = 1
    /\ cache = [contracts |-> Undefined, aggregates |-> Undefined, timestamp |-> Undefined,
                by |-> [contracts |-> 0, aggregates |-> 0, timestamp |-> 0]]
    /\ loads = <<>>
    /\ service = [initialized |-> FALSE, initializing |-> FALSE, conn |-> FALSE,
                  registered |-> Undefined, bodies |-> 0]
    /\ provider = [contracts |-> <<>>, aggregates |-> Undefined, loading |-> TRUE,
                   error |-> FALSE]

\* the state of a freshly mounted ContractsAnalyticsModal (its useState defaults)
ModalDefaults ==
    [drillDown |-> ClosedDrillDown, seen |-> ClosedDrillDown,
     drillDownActiveTab |-> "contracts", drillDownPage |-> 1, entityPage |-> 1,
     dimension |-> "by_contractor", currentPage |-> 1]

\* the modal's state as one record
Modal ==
    [drillDown |-> drillDown, seen |-> seen,
     drillDownActiveTab |-> drillDownActiveTab, drillDownPage |-> drillDownPage,
     entityPage |-> entityPage, dimension |-> dimension, currentPage |-> currentPage]

SetModal(m) ==
    /\ drillDown' = m.drillDown
    /\ seen' = m.seen
    /\ drillDownActiveTab' = m.drillDownActiveTab
    /\ drillDownPage' = m.drillDownPage
    /\ entityPage' = m.entityPage
    /\ dimension' = m.dimension
    /\ currentPage' = m.currentPage

\* ContractsExplorer.handleHashChange without the branch for the empty hash
ExplorerHashChangeNoClear(h, open) ==
    IF h = "#analytics" THEN TRUE
    ELSE IF StartsWith(h, "#analytics/") THEN TRUE
    ELSE open

\* ContractsExplorer.handleHashChange: the new value of analyticsOpen
ExplorerHashChange(h, open) ==
    IF h = "#analytics" THEN TRUE
    ELSE IF StartsWith(h, "#analytics/") THEN TRUE
    ELSE IF h = "" THEN FALSE
    ELSE open

\* the modal's listener runs, then the effect on [drillDown.breadcrumbs] resets
\* both page cursors when setDrillDown stored a new breadcrumb array
ApplyHashChange(m, r) ==
    [m EXCEPT !.drillDown = r.drillDown,
              !.drillDownActiveTab = r.tab,
              !.drillDownPage = IF r.set THEN 1 ELSE @,
              !.entityPage = IF r.set THEN 1 ELSE @]

ModalHashChange(h, m, cs) ==
    ApplyHashChange(m, handleHashChange(h, m.seen, cs, m.drillDown, m.drillDownActiveTab))

\* a hashchange event: the explorer's listener and, when mounted, the modal's.
\* wasOpen/m are the state before the event; the result is the modal's state
\* after the re-render (a modal that is unmounted loses its state, a modal that
\* mounts runs its effect, which calls handleHashChange once).
AfterHashChange(h, wasOpen, m, cs) ==
    IF ~ExplorerHashChange(h, wasOpen) THEN ModalDefaults
    ELSE ModalHashChange(h, IF wasOpen THEN m ELSE ModalDefaults, cs)

\* window.location.hash = h by a handler that left the modal in state m:
\* no event fires when the hash does not change
Navigate(h, m) ==
    /\ hash' = h
    /\ analyticsOpen' = IF h = hash THEN analyticsOpen ELSE ExplorerHashChange(h, analyticsOpen)
    /\ \E after \in {IF h = hash THEN m ELSE AfterHashChange(h, analyticsOpen, m, contracts)} :
          SetModal(after)
    /\ UNCHANGED <<source, loading, contracts>>


(***************************************************************************)
(* What the modal renders from its state.                                  *)
(***************************************************************************)
DDContracts == drillDownContracts(contracts, drillDown)

DDAggregates == drillDownRelatedAggregates(drillDown, DDContracts)

EntityData == currentEntityData(drillDownActiveTab, DDAggregates)

paginatedEntityData == PageSlice(EntityData, entityPage, entityPageSize)

drillDownTotalPages == CeilDiv(Len(DDContracts), drillDownPageSize)

entityTotalPages == CeilDiv(Len(EntityData), entityPageSize)

Dimensions == {"by_contractor", "by_region", "by_implementing_office", "by_status"}

\* useContractsAnalytics with no filter set, metric 'amount', yearFilter 'all':
\* the rows of the top-level analytics table
processedData(cs, dim) ==
    IF Len(cs) = 0 THEN <<>>
    ELSE SortBy(CASE dim = "by_contractor"          -> aggregateByContractor(cs)
                  [] dim = "by_region"              -> aggregateByRegion(cs)
                  [] dim = "by_implementing_office" -> aggregateByImplementingOffice(cs)
                  [] dim = "by_status"              -> aggregateByStatus(cs)
                  [] OTHER                          -> <<>>,
                ByTotalDesc)

paginatedData == PageSlice(processedData(contracts, dimension), currentPage, pageSize)

totalPages == CeilDiv(Len(processedData(contracts, dimension)), pageSize)

\* entityTypeMap of handleEntityClick
TypeOfDimension(dim) ==
    CASE dim = "by_contractor"          -> "contractor"
      [] dim = "by_region"              -> "region"
      [] dim = "by_implementing_office" -> "implementing_office"
      [] dim = "by_status"              -> "status"
      [] OTHER                          -> "contractor"

\* "For contractors, use contractor_id_1 instead of name": the id of the first
\* record of cs whose contractor_name_1 is the name, else the name itself
IdOrName(contract, entityName) ==
    IF contract # NotFound /\ Truthy(contract.contractor_id_1)
    THEN contract.contractor_id_1 ELSE entityName

EntityIdOf(cs, entityType, entityName) ==
    IF entityType = "contractor"
    THEN LET IsName(c) == c.contractor_name_1 = entityName
         IN  IdOrName(FindFirst(cs, IsName), entityName)
    ELSE entityName

\* handleEntityClick: the hash for the entity called entityName
EntityHash(cs, entityType, entityName) ==
    TopHash(entityType, EntityIdOf(cs, entityType, entityName))

TopModalShown == analyticsOpen /\ ~drillDown.open

\* ContractsExplorer renders ContractDetailsModal above the analytics modal
\* while selectedContract is set: its hash handler sets it for a hash that
\* holds '/contract/<id>' of a loaded record and clears it for every other hash
DetailsShown == analyticsOpen /\ Includes(hash, "/contract/")

DrillDownShown == analyticsOpen /\ drillDown.open /\ ~DetailsShown

\* the deepest breadcrumb trail the model follows
MaxDepth == 2

\* the highest page number a pagination button is given
MaxPage == 2

\* the rows of a page the model clicks: the first MaxRow
MaxRow == 2

(***************************************************************************)
(* Operations.                                                             *)
(***************************************************************************)
\* what `last` records when operation op runs
Did(op) == [op |-> op, depth |-> Len(drillDown.breadcrumbs)]

\* the data layer finishes loading: contracts is replaced, and the effects that
\* depend on contracts run again; the modal's listener now closes over the
\* drillDown of this render
LoadComplete ==
    /\ last' = Did("LoadComplete") /\ UNCHANGED <<explorer, given, result, ioVars>>
    /\ loading
    /\ loading' = FALSE
    /\ contracts' = source
    /\ \E after \in {IF analyticsOpen
                      THEN ModalHashChange(hash, [Modal EXCEPT !.seen = drillDown], source)
                      ELSE Modal} :
          SetModal(after)
    /\ UNCHANGED <<hash, source, analyticsOpen, navigated>>

\* ContractsExplorer.handleShowAnalytics
ShowAnalytics ==
    /\ last' = Did("ShowAnalytics") /\ UNCHANGED <<explorer, given, result, ioVars>>
    /\ ~loading /\ Len(contracts) > 0 /\ ~analyticsOpen
    /\ Navigate("#analytics", Modal)
    /\ UNCHANGED navigated

\* the "View By" select of the top-level table
SetDimension(d) ==
    /\ last' = Did("SetDimension") /\ UNCHANGED <<explorer, given, result, ioVars>>
    /\ TopModalShown
    /\ d # dimension
    /\ dimension' = d
    /\ currentPage' = 1
    /\ UNCHANGED <<hash, source, loading, contracts, analyticsOpen, drillDown, seen,
                   drillDownActiveTab, drillDownPage, entityPage, navigated>>

\* Previous / Next of the top-level table
TopPage(p) ==
    /\ last' = Did("TopPage") /\ UNCHANGED <<explorer, given, result, ioVars>>
    /\ TopModalShown
    /\ \E total \in {totalPages} :
          /\ total > 1
          /\ \/ p = currentPage - 1 /\ currentPage # 1
             \/ p = currentPage + 1 /\ currentPage # total
    /\ currentPage' = p
    /\ UNCHANGED <<hash, source, loading, contracts, analyticsOpen, drillDown, seen,
                   drillDownActiveTab, drillDownPage, entityPage, dimension, navigated>>

\* handleEntityClick on row i of the top-level table
TopEntityClick(i) ==
    /\ last' = Did("TopEntityClick") /\ UNCHANGED <<explorer, given, result, ioVars>>
    /\ TopModalShown
    /\ \E rows \in {paginatedData} :
          /\ i \in 1..Len(rows)
          /\ Navigate(EntityHash(contracts, TypeOfDimension(dimension), rows[i].name), Modal)
    /\ UNCHANGED navigated

\* onClick of row i of the entity table of the drill-down
RowClick(i) ==
    /\ last' = Did("RowClick") /\ UNCHANGED <<explorer, given, result, ioVars>>
    /\ DrillDownShown
    /\ drillDownActiveTab # "contracts"
    /\ Len(drillDown.breadcrumbs) < MaxDepth
    /\ \E ddcs \in {DDContracts} :
       \E rows \in {PageSlice(currentEntityData(drillDownActiveTab,
                                                 drillDownRelatedAggregates(drillDown, ddcs)),
                               entityPage, entityPageSize)} :
          /\ i \in 1..Len(rows)
          /\ Truthy(TypeOfTab(drillDownActiveTab)) /\ Truthy(rows[i].name)
          /\ Navigate(RowHash(drillDown.breadcrumbs, TypeOfTab(drillDownActiveTab),
                              EntityIdOf(ddcs, TypeOfTab(drillDownActiveTab), rows[i].name)),
                      Modal)
    /\ UNCHANGED navigated

\* onClick of the breadcrumb button `index` (the last one is disabled)
BreadcrumbClick(index) ==
    /\ last' = Did("BreadcrumbClick") /\ UNCHANGED <<explorer, given, result, ioVars>>
    /\ DrillDownShown
    /\ index \in 1..(Len(drillDown.breadcrumbs) - 1)
    /\ Navigate(BreadcrumbHash(drillDown.breadcrumbs, index, drillDownActiveTab), Modal)
    /\ UNCHANGED navigated

\* onClick of a tab button
TabClick(tab) ==
    /\ last' = Did("TabClick") /\ UNCHANGED <<explorer, given, result, ioVars>>
    /\ DrillDownShown
    /\ \E tabs \in {visibleTabs(drillDown.breadcrumbs)} :
       \E k \in 1..Len(tabs) : tabs[k] = tab
    /\ Navigate(TabHash(hash, tab),
                [Modal EXCEPT !.drillDownActiveTab = tab,
                              !.entityPage = 1,
                              !.drillDownPage = IF tab # "contracts" THEN 1 ELSE @])
    /\ UNCHANGED navigated

\* Previous / Next of the drill-down contracts table
DrillDownPage(p) ==
    /\ last' = Did("DrillDownPage") /\ UNCHANGED <<explorer, given, result, ioVars>>
    /\ DrillDownShown /\ drillDownActiveTab = "contracts"
    /\ \E total \in {drillDownTotalPages} :
          /\ total > 1
          /\ \/ p = drillDownPage - 1 /\ drillDownPage # 1
             \/ p = drillDownPage + 1 /\ drillDownPage # total
    /\ drillDownPage' = p
    /\ UNCHANGED <<hash, source, loading, contracts, analyticsOpen, drillDown, seen,
                   drillDownActiveTab, entityPage, dimension, currentPage, navigated>>

\* Previous / Next of the drill-down entity table
EntityPage(p) ==
    /\ last' = Did("EntityPage") /\ UNCHANGED <<explorer, given, result, ioVars>>
    /\ DrillDownShown /\ drillDownActiveTab # "contracts"
    /\ \E total \in {entityTotalPages} :
          /\ total > 1
          /\ \/ p = entityPage - 1 /\ entityPage # 1
             \/ p = entityPage + 1 /\ entityPage # total
    /\ entityPage' = p
    /\ UNCHANGED <<hash, source, loading, contracts, analyticsOpen, drillDown, seen,
                   drillDownActiveTab, drillDownPage, dimension, currentPage, navigated>>

\* `${contract.year}-${contract.contract_id}`, or contract_id alone
FullId(c) ==
    IF TruthyNum(c.year) /\ Truthy(c.contract_id)
    THEN TwoDigits(c.year[1] \div 100) \o TwoDigits(c.year[1] % 100) \o "-" \o c.contract_id
    ELSE TemplateItem(c.contract_id)

\* currentHash.split('/').slice(0, 3).join('/') + '/contract/' + contractId
DetailsHash(currentHash, c) ==
    LET parts == Split(currentHash, "/")
    IN  Join(SubSeq(parts, 1, IF Len(parts) < 3 THEN Len(parts) ELSE 3), "/")
            \o "/contract/" \o FullId(c)

\* onClick of the "view details" button of row i of the drill-down contracts table
ViewContractDetails(i) ==
    /\ last' = Did("ViewContractDetails") /\ UNCHANGED <<explorer, given, result, ioVars>>
    /\ DrillDownShown /\ drillDownActiveTab = "contracts"
    /\ \E rows \in {PageSlice(sortedDrillDownContracts(DDContracts, "cost_php", "desc"),
                               drillDownPage, drillDownPageSize)} :
          /\ i \in 1..Len(rows)
          /\ Navigate(DetailsHash(hash, rows[i]), Modal)
    /\ UNCHANGED navigated

\* ContractsExplorer.handleCloseContractDetails, the hash holds '/contract/'
CloseContractDetails ==
    /\ last' = Did("CloseContractDetails") /\ UNCHANGED <<explorer, given, result, ioVars>>
    /\ DetailsShown
    /\ Navigate(Split(hash, "/contract/")[1], Modal)
    /\ UNCHANGED navigated

\* onClose of either modal: "Clear hash"
CloseModal ==
    /\ last' = Did("CloseModal") /\ UNCHANGED <<explorer, given, result, ioVars>>
    /\ analyticsOpen /\ ~DetailsShown
    /\ Navigate("", Modal)
    /\ UNCHANGED navigated

\* hashes the user reaches by Back/Forward, a bookmark or the address bar
NavHashes ==
    {"#analytics", "#analytics/region/R1?tab=offices", "#analytics/region/R1?tab=regions"}

\* the hash changes from outside the page's controls
UrlNavigate(h) ==
    /\ last' = Did("UrlNavigate") /\ UNCHANGED <<explorer, given, result, ioVars>>
    /\ h # hash
    /\ Navigate(h, Modal)
    /\ navigated' = TRUE

\* the page is opened at hash h: ContractsExplorer mounts and its effect calls
\* handleHashChange once; the record set may or may not have arrived
InitHashes == {"", "#analytics/region/R1?tab=offices"}

\* the useState defaults of the explorer's table
TableDefaults ==
    explorer = [filters |-> NoLists @@ NoRanges, sortConfig |-> DefaultSort,
                pagination |-> [page |-> 1, pageSize |-> 50]]

Init ==
    /\ TableDefaults /\ DataLayerIdle
    /\ hash \in InitHashes
    /\ source \in DataSets
    /\ loading \in BOOLEAN
    /\ contracts = IF loading THEN <<>> ELSE source
    /\ analyticsOpen = ExplorerHashChange(hash, FALSE)
    /\ \E m \in {AfterHashChange(hash, FALSE, ModalDefaults, contracts)} :
          /\ drillDown = m.drillDown
          /\ seen = m.seen
          /\ drillDownActiveTab = m.drillDownActiveTab
          /\ drillDownPage = m.drillDownPage
          /\ entityPage = m.entityPage
          /\ dimension = m.dimension
          /\ currentPage = m.currentPage
    /\ navigated = FALSE
    /\ last = [op |-> "Init", depth |-> 0]
    /\ given = NULL /\ result = NULL

Next ==
    \/ LoadComplete
    \/ ShowAnalytics
    \/ \E d \in Dimensions : SetDimension(d)
    \/ \E p \in 1..MaxPage : TopPage(p)
    \/ \E i \in 1..MaxRow : TopEntityClick(i)
    \/ \E i \in 1..MaxRow : RowClick(i)
    \/ \E index \in 1..MaxDepth : BreadcrumbClick(index)
    \/ \E tab \in TabNames : TabClick(tab)
    \/ \E p \in 1..MaxPage : DrillDownPage(p)
    \/ \E p \in 1..MaxPage : EntityPage(p)
    \/ \E i \in 1..MaxRow : ViewContractDetails(i)
    \/ CloseContractDetails
    \/ CloseModal
    \/ \E h \in NavHashes : UrlNavigate(h)

Spec == Init /\ [][Next]_vars

(***************************************************************************)
(* The hash codec as a pure function: a DrillDownState and a tab are        *)
(* written to a hash by the page's controls, and the hash is read back by   *)
(* the handleHashChange of a freshly mounted modal.                         *)
(***************************************************************************)
\* the page is idle while a pure function is applied
Idle ==
    /\ hash = "" /\ source = <<>> /\ loading = FALSE /\ contracts = <<>>
    /\ analyticsOpen = FALSE /\ drillDown = ClosedDrillDown /\ seen = ClosedDrillDown
    /\ drillDownActiveTab = "contracts" /\ drillDownPage = 1 /\ entityPage = 1
    /\ dimension = "by_contractor" /\ currentPage = 1 /\ navigated = FALSE
    /\ last = [op |-> "Init", depth |-> 0]
    /\ TableDefaults

\* valueIds: plain, with characters encodeURIComponent escapes, and the word
\* the hash uses for the contract-details suffix
CodecIds == {"NCR", "IV A", "a/b?c=1&d", "contract", "100%"}

CodecTypes == {"region", "status", "contractor"}

\* trails of one or two breadcrumbs that pin different dimensions
CodecTrails ==
    {<<Breadcrumb(p[1], p[2], p[2])>> : p \in CodecTypes \X CodecIds}
    \cup {<<Breadcrumb(p[1], p[2], p[2]), Breadcrumb(p[3], p[4], p[4])>> :
            p \in {q \in CodecTypes \X CodecIds \X CodecTypes \X CodecIds : q[1] # q[3]}}

\* a valid state: a trail and one of the tabs it shows
CodecStates ==
    {[breadcrumbs |-> p[1], tab |-> p[2]] :
        p \in {q \in CodecTrails \X TabNames :
                  \E k \in 1..Len(visibleTabs(q[1])) : visibleTabs(q[1])[k] = q[2]}}

InitCodec ==
    /\ Idle /\ DataLayerIdle
    /\ given \in CodecStates
    /\ result = [stage |-> "given", hash |-> "", breadcrumbs |-> <<>>, tab |-> ""]

\* the breadcrumb button's serialisation: navigateWithTab('#analytics/' + path)
SerializeState ==
    /\ result.stage = "given"
    /\ result' = [result EXCEPT
                    !.stage = "serialized",
                    !.hash = BreadcrumbHash(given.breadcrumbs, Len(given.breadcrumbs),
                                            given.tab)]
    /\ UNCHANGED <<uiVars, explorer, given, ioVars>>

\* the entity row's serialisation of the state it leads to (tab contracts)
SerializeRow ==
    /\ result.stage = "given"
    /\ Len(given.breadcrumbs) = 2 /\ given.tab = "contracts"
    /\ result' = [result EXCEPT
                    !.stage = "serialized",
                    !.hash = RowHash(SubSeq(given.breadcrumbs, 1, 1),
                                     given.breadcrumbs[2].entityType,
                                     given.breadcrumbs[2].entityId)]
    /\ UNCHANGED <<uiVars, explorer, given, ioVars>>

\* what a freshly mounted modal makes of the hash
ReadHash(r) ==
    [stage |-> "parsed", hash |-> result.hash,
     breadcrumbs |-> r.drillDown.breadcrumbs, tab |-> r.tab]

ParseHash ==
    /\ result.stage = "serialized"
    /\ result' = ReadHash(handleHashChange(result.hash, ClosedDrillDown, DataSmall,
                                           ClosedDrillDown, "contracts"))
    /\ UNCHANGED <<uiVars, explorer, given, ioVars>>

NextCodec == SerializeState \/ SerializeRow \/ ParseHash

SpecCodec == InitCodec /\ [][NextCodec]_vars

(***************************************************************************)
(* The filter engines as pure functions: useContractFilters (the table),    *)
(* the filteredContracts of useContractsAnalytics, and drillDownContracts.  *)
(***************************************************************************)
\* what a filter pass hands to the next one; threw: a TypeError ended the run
Returned(value) == [threw |-> FALSE, value |-> value]

Threw == [threw |-> TRUE, value |-> <<>>]

\* Array.prototype.includes
ArrayIncludes(xs, v) == \E k \in 1..Len(xs) : xs[k] = v

\* wanted.some(w => value.toLowerCase().includes(w.toLowerCase()))
SomeIncludesLower(value, wanted) ==
    \E k \in 1..Len(wanted) : Includes(ToLowerCase(value), ToLowerCase(wanted[k]))

\* a pass of useContractFilters over a text field: value.toLowerCase() throws
\* on a record that has no value there
TextPass(filtered, wanted, Field(_)) ==
    IF filtered.threw \/ Len(wanted) = 0 THEN filtered
    ELSE IF \E i \in 1..Len(filtered.value) : Field(filtered.value[i]) = NULL THEN Threw
    ELSE Returned(SelectSeq(filtered.value, LAMBDA c : SomeIncludesLower(Field(c), wanted)))

\* a pass that cannot throw: if (wanted.length > 0) filtered = filtered.filter(Keep)
Pass(filtered, wanted, Keep(_)) ==
    IF filtered.threw \/ Len(wanted) = 0 THEN filtered
    ELSE Returned(SelectSeq(filtered.value, Keep))

\* Array.prototype.join renders null as the empty string
JoinItem(v) == IF v = NULL THEN "" ELSE v


\* a pass under a condition: if (on) filtered = filtered.filter(Keep)
PassIf(filtered, on, Keep(_)) ==
    IF filtered.threw \/ ~on THEN filtered
    ELSE Returned(SelectSeq(filtered.value, Keep))

\* the lower cost bound as an exclusive one
CostAbove(c, min) == c.cost_php # NoNum /\ c.cost_php[1] > min[1]

\* c.cost_php !== null && c.cost_php >= min
CostAtLeast(c, min) == c.cost_php # NoNum /\ c.cost_php[1] >= min[1]

\* c.cost_php !== null && c.cost_php <= max
CostAtMost(c, max) == c.cost_php # NoNum /\ c.cost_php[1] <= max[1]

\* the value of a decimal numeral
RECURSIVE Numeral(_)
Numeral(s) ==
    IF s = "" THEN 0
    ELSE 10 * Numeral(SubSeq(s, 1, Len(s) - 1)) + IndexOf(Digits, CharAt(s, Len(s)), 1) - 1

IsNumeral(s, len) == Len(s) = len /\ \A i \in 1..Len(s) : Includes(Digits, CharAt(s, i))

DaysInMonth(y, m) ==
    IF m = 2 THEN (IF y % 4 = 0 /\ (y % 100 # 0 \/ y % 400 = 0) THEN 29 ELSE 28)
    ELSE IF m \in {4, 6, 9, 11} THEN 30 ELSE 31

\* new Date(s) for a date-only string YYYY-MM-DD: midnight UTC of that day;
\* any other text of the model's inputs is an Invalid Date
NewDate(s) ==
    LET parts == Split(s, "-")
    IN  IF Len(parts) = 3 /\ IsNumeral(parts[1], 4) /\ IsNumeral(parts[2], 2)
           /\ IsNumeral(parts[3], 2)
           /\ Numeral(parts[2]) \in 1..12
           /\ Numeral(parts[3]) \in 1..DaysInMonth(Numeral(parts[1]), Numeral(parts[2]))
        THEN [valid |-> TRUE, y |-> Numeral(parts[1]), m |-> Numeral(parts[2]),
              d |-> Numeral(parts[3])]
        ELSE [valid |-> FALSE, y |-> 0, m |-> 0, d |-> 0]

\* the local calendar day (getFullYear, getMonth, getDate) of midnight UTC in
\* the browser's time zone: "east" is UTC or ahead of it by less than a day,
\* "west" is behind UTC, where it is still the day before
LocalDay(date, zone) ==
    IF zone = "east" THEN date
    ELSE IF date.d > 1 THEN [date EXCEPT !.d = @ - 1]
    ELSE IF date.m > 1
         THEN [date EXCEPT !.m = @ - 1, !.d = DaysInMonth(date.y, date.m - 1)]
    ELSE [date EXCEPT !.y = @ - 1, !.m = 12, !.d = 31]

\* the order of two valid dates is the order of their time values
TimeValue(date) == (date.y * 100 + date.m) * 100 + date.d

\* the test of a record whose effectivity date parsed to contractDate; a
\* comparison with an Invalid Date is false
DateMatches(contractDate, dateRange, zone) ==
    IF dateRange.type = "yearly" /\ TruthyNum(dateRange.year)
    THEN LocalDay(contractDate, zone).y = dateRange.year[1]
    ELSE IF dateRange.type = "quarterly" /\ TruthyNum(dateRange.year)
            /\ TruthyNum(dateRange.quarter)
    THEN /\ LocalDay(contractDate, zone).y = dateRange.year[1]
         /\ CeilDiv(LocalDay(contractDate, zone).m, 3) = dateRange.quarter[1]
    ELSE IF dateRange.type = "custom" /\ Truthy(dateRange.startDate)
            /\ Truthy(dateRange.endDate)
    THEN /\ NewDate(dateRange.startDate).valid /\ NewDate(dateRange.endDate).valid
         /\ TimeValue(contractDate) >= TimeValue(NewDate(dateRange.startDate))
         /\ TimeValue(contractDate) <= TimeValue(NewDate(dateRange.endDate))
    ELSE TRUE

\* the predicate of the date range filter
InDateRange(c, dateRange, zone) ==
    /\ Truthy(c.effectivity_date)
    /\ NewDate(c.effectivity_date).valid
    /\ DateMatches(NewDate(c.effectivity_date), dateRange, zone)

\* the fields whose values are numbers; the others hold strings
NumericFields == {"cost_php", "year"}

IsNullish(c, field) ==
    IF field \in NumericFields THEN c[field] = NoNum ELSE c[field] = NULL

\* the sort comparator with every null test answering "a first"
SortsBeforeNullsFirst(a, b, sortConfig) ==
    IF IsNullish(b, sortConfig.field) THEN FALSE
    ELSE IF IsNullish(a, sortConfig.field) THEN TRUE
    ELSE IF sortConfig.field \in NumericFields
    THEN (IF sortConfig.direction = "asc"
          THEN a[sortConfig.field][1] - b[sortConfig.field][1] < 0
          ELSE b[sortConfig.field][1] - a[sortConfig.field][1] < 0)
    ELSE IF sortConfig.direction = "asc"
    THEN LocaleLess(ToLowerCase(a[sortConfig.field]), ToLowerCase(b[sortConfig.field]))
    ELSE LocaleLess(ToLowerCase(b[sortConfig.field]), ToLowerCase(a[sortConfig.field]))

\* the sort comparator answers a negative number: a goes before b.  For two
\* nullish values it answers 1 either way round; insertion and merge steps
\* then leave the two in the order they had.
SortsBefore(a, b, sortConfig) ==
    IF IsNullish(a, sortConfig.field) THEN FALSE
    ELSE IF IsNullish(b, sortConfig.field) THEN TRUE
    ELSE IF sortConfig.field \in NumericFields
    THEN (IF sortConfig.direction = "asc"
          THEN a[sortConfig.field][1] - b[sortConfig.field][1] < 0
          ELSE b[sortConfig.field][1] - a[sortConfig.field][1] < 0)
    ELSE IF sortConfig.direction = "asc"
    THEN LocaleLess(ToLowerCase(a[sortConfig.field]), ToLowerCase(b[sortConfig.field]))
    ELSE LocaleLess(ToLowerCase(b[sortConfig.field]), ToLowerCase(a[sortConfig.field]))

\* a sort that is not stable: records the comparator does not order come out
\* in the reverse of the order they had
SortPassUnstable(filtered, sortConfig) ==
    IF filtered.threw THEN filtered
    ELSE Returned(Permute(SortBy(filtered.value, LAMBDA a, b : SortsBefore(b, a, sortConfig)),
                          [i \in 1..Len(filtered.value) |-> Len(filtered.value) + 1 - i]))

\* filtered.sort(comparator)
SortPass(filtered, sortConfig) ==
    IF filtered.threw THEN filtered
    ELSE Returned(SortBy(filtered.value, LAMBDA a, b : SortsBefore(a, b, sortConfig)))

\* useContractFilters; zone is the time zone the browser runs in
useContractFilters(cs, f, sortConfig, zone) ==
    SortPass(
     PassIf(
      PassIf(
       PassIf(
        PassIf(
         PassIf(
          Pass(
            TextPass(
              Pass(
                Pass(
                  Pass(
                    TextPass(
                      TextPass(Returned(cs), f.regions, LAMBDA c : c.region),
                      f.implementing_offices, LAMBDA c : c.implementing_office),
                    f.contractors,
                    LAMBDA c : \E j \in 1..Len(getContractorNames(c)) :
                                  SomeIncludesLower(getContractorNames(c)[j], f.contractors)),
                  f.statuses, LAMBDA c : ArrayIncludes(f.statuses, c.status)),
                f.years, LAMBDA c : TruthyNum(c.year) /\ ArrayIncludes(f.years, c.year[1])),
              f.source_of_funds, LAMBDA c : c.source_of_funds),
            f.keywords,
            LAMBDA c : \A k \in 1..Len(f.keywords) :
                          Includes(ToLowerCase(JoinItem(c.description) \o " "
                                                   \o JoinItem(c.contract_id)),
                                   ToLowerCase(f.keywords[k]))),
          f.minCost # NoNum, LAMBDA c : CostAtLeast(c, f.minCost)),
         f.maxCost # NoNum, LAMBDA c : CostAtMost(c, f.maxCost)),
        f.valueRange.min # NoNum, LAMBDA c : CostAtLeast(c, f.valueRange.min)),
       f.valueRange.max # NoNum, LAMBDA c : CostAtMost(c, f.valueRange.max)),
      f.dateRange.type # "all_time", LAMBDA c : InDateRange(c, f.dateRange, zone)),
     sortConfig)

\* the text the analytics filter searches for keywords
AnalyticsSearchText(c) ==
    ToLowerCase(TemplateItem(c.description) \o " " \o TemplateItem(c.contractor_name_1)
                    \o " " \o TemplateItem(c.region)
                    \o " " \o TemplateItem(c.implementing_office))

\* useContractsAnalytics.filteredContracts
filteredContracts(cs, f, zone) ==
    PassIf(
     PassIf(
      PassIf(
       Pass(
        Pass(
          Pass(
            Pass(
              Pass(
                Pass(Returned(cs), f.regions, LAMBDA c : ArrayIncludes(f.regions, c.region)),
                f.implementing_offices,
                LAMBDA c : ArrayIncludes(f.implementing_offices, c.implementing_office)),
              f.contractors,
              LAMBDA c : \E k \in 1..Len(f.contractors) :
                            \E j \in 1..Len(getContractorNames(c)) :
                               Includes(getContractorNames(c)[j], f.contractors[k])),
            f.statuses, LAMBDA c : ArrayIncludes(f.statuses, c.status)),
          f.years, LAMBDA c : c.year # NoNum /\ ArrayIncludes(f.years, c.year[1])),
        f.keywords,
        LAMBDA c : \E k \in 1..Len(f.keywords) :
                      Includes(AnalyticsSearchText(c), ToLowerCase(f.keywords[k]))),
       f.valueRange.min # NoNum, LAMBDA c : CostAtLeast(c, f.valueRange.min)),
      f.valueRange.max # NoNum, LAMBDA c : CostAtMost(c, f.valueRange.max)),
     f.dateRange.type # "all_time", LAMBDA c : InDateRange(c, f.dateRange, zone)).value

\* records to filter: regions one of which contains another, a record without
\* region and source of funds, one record without cost and year, dates at the
\* first and last day of a quarter, a missing date and a text that is no date
RecordSets ==
    LET r1 == Dated(Contract("K1", "Road repair", "Acme", "i1", NULL, "NCR", "Office A",
                             "GAA", <<100>>, "Done", <<2020>>), "2020-01-01")
        r2 == Dated(Contract("K2", "bridge ROAD", "Bolt", "i2", "acme jv", "NCR East",
                             "Office B", "Loan", <<50>>, "Done", <<2021>>), "2021-03-31")
        r3 == Contract("K3", "Dike", "Bolt", "i2", NULL, "CAR", "Office A", "GAA",
                       NoNum, "Ongoing", NoNum)
        r4 == Dated(Contract("K4", "school", "Acme", "i1", NULL, NULL, "Office B", NULL,
                             <<70>>, "Done", <<2020>>), "n/a")
    IN  { <<r1, r2, r3>>, <<r3, r4, r2, r1>> }

\* the filter specs: per list the empty list and lists that differ from the
\* field values in case or by being a part of them; cost bounds equal to,
\* between and across the costs; date ranges of each mode, windows that end
\* on a record's date, and a window whose start is after its end
FilterSpecs ==
    {lists @@ NoRanges :
        lists \in [regions              : {<<>>, <<"NCR">>, <<"ncr">>, <<"CAR", "NCR East">>},
                   implementing_offices : {<<>>, <<"office a">>},
                   contractors          : {<<>>, <<"acme">>},
                   statuses             : {<<>>, <<"Done">>, <<"done">>},
                   years                : {<<>>, <<2020>>},
                   source_of_funds      : {<<>>, <<"gaa">>},
                   keywords             : {<<>>, <<"road">>, <<"road", "bridge">>}]}
    \cup
    {NoLists @@ ranges :
        ranges \in [minCost    : {NoNum, <<50>>, <<100>>},
                    maxCost    : {NoNum, <<70>>, <<100>>},
                    valueRange : [min : {NoNum, <<70>>}, max : {NoNum, <<50>>}],
                    dateRange  : {AllTime}]}
    \cup
    {NoLists @@ [NoRanges EXCEPT !.dateRange = d] :
        d \in { [AllTime EXCEPT !.type = "yearly", !.year = <<2020>>],
                [AllTime EXCEPT !.type = "yearly", !.year = <<2019>>],
                [AllTime EXCEPT !.type = "quarterly", !.year = <<2020>>, !.quarter = <<1>>],
                [AllTime EXCEPT !.type = "quarterly", !.year = <<2021>>, !.quarter = <<2>>],
                [AllTime EXCEPT !.type = "custom", !.startDate = "2020-01-01",
                                                   !.endDate = "2021-03-31"],
                [AllTime EXCEPT !.type = "custom", !.startDate = "2020-01-02",
                                                   !.endDate = "2021-03-30"],
                [AllTime EXCEPT !.type = "custom", !.startDate = "2021-03-31",
                                                   !.endDate = "2020-01-01"] }}

\* what the filter is given: under the default sort every filter spec (the
\* date ranges in both time zones); under every sortConfig the empty filter
\* and records two of which lack the cost, the year and the region
FilterInputs ==
    [records : RecordSets, filters : FilterSpecs, sortConfig : {DefaultSort},
     zone : {"east"}]
    \cup
    [records : RecordSets, filters : {f \in FilterSpecs : f.dateRange.type # "all_time"},
     sortConfig : {DefaultSort}, zone : {"west"}]
    \cup
    [records : {rs \o <<Contract("K5", "canal", "Acme", "i1", NULL, NULL, "Office A",
                                 "GAA", NoNum, "Done", NoNum)>> : rs \in RecordSets},
     filters : {NoLists @@ NoRanges},
     sortConfig : [field : {"cost_php", "year", "region", "description"},
                   direction : {"asc", "desc"}],
     zone : {"east"}]

InitFilter ==
    /\ Idle /\ DataLayerIdle
    /\ given \in FilterInputs
    /\ result = [done |-> {}, table |-> Returned(<<>>), again |-> Returned(<<>>),
                 analytics |-> <<>>, drill |-> <<>>, sorted |-> <<>>]

\* the table's filter runs
ApplyContractFilters ==
    /\ "table" \notin result.done
    /\ result' = [result EXCEPT
                    !.done = @ \cup {"table"},
                    !.table = useContractFilters(given.records, given.filters,
                                                 given.sortConfig, given.zone)]
    /\ UNCHANGED <<uiVars, explorer, given, ioVars>>

\* the table's filter runs on what it returned
ApplyAgain ==
    /\ "table" \in result.done /\ ~result.table.threw
    /\ "again" \notin result.done
    /\ result' = [result EXCEPT
                    !.done = @ \cup {"again"},
                    !.again = useContractFilters(result.table.value, given.filters,
                                                 given.sortConfig, given.zone)]
    /\ UNCHANGED <<uiVars, explorer, given, ioVars>>

\* the analytics filter runs
ApplyAnalyticsFilter ==
    /\ "analytics" \notin result.done
    /\ result' = [result EXCEPT
                    !.done = @ \cup {"analytics"},
                    !.analytics = filteredContracts(given.records, given.filters,
                                                    given.zone)]
    /\ UNCHANGED <<uiVars, explorer, given, ioVars>>

\* the filter spec is {regions: [r], statuses: [s]} and nothing else
PinsRegionAndStatus(f) ==
    /\ Len(f.regions) = 1 /\ Len(f.statuses) = 1
    /\ Len(f.implementing_offices) = 0 /\ Len(f.contractors) = 0 /\ Len(f.years) = 0
    /\ Len(f.source_of_funds) = 0 /\ Len(f.keywords) = 0
    /\ f.minCost = NoNum /\ f.maxCost = NoNum /\ f.valueRange.min = NoNum
    /\ f.valueRange.max = NoNum /\ f.dateRange.type = "all_time"

\* the drill-down subset of the breadcrumb path [region=r, status=s]
ApplyDrillDown ==
    /\ "drill" \notin result.done
    /\ PinsRegionAndStatus(given.filters)
    /\ result' = [result EXCEPT
                    !.done = @ \cup {"drill"},
                    !.drill = drillDownContracts(given.records,
                                [open |-> TRUE,
                                 breadcrumbs |->
                                    <<Breadcrumb("region", given.filters.regions[1],
                                                 given.filters.regions[1]),
                                      Breadcrumb("status", given.filters.statuses[1],
                                                 given.filters.statuses[1])>>])]
    /\ UNCHANGED <<uiVars, explorer, given, ioVars>>

\* the drill-down contracts tab sorts the records it is given
SortDrillDown ==
    /\ "sorted" \notin result.done
    /\ result' = [result EXCEPT
                    !.done = @ \cup {"sorted"},
                    !.sorted = sortedDrillDownContracts(given.records,
                                                        given.sortConfig.field,
                                                        given.sortConfig.direction)]
    /\ UNCHANGED <<uiVars, explorer, given, ioVars>>

NextFilter ==
    \/ ApplyContractFilters
    \/ ApplyAgain
    \/ ApplyAnalyticsFilter
    \/ ApplyDrillDown
    \/ SortDrillDown

SpecFilter == InitFilter /\ [][NextFilter]_vars

(***************************************************************************)
(* The aggregations as pure functions of a record list.                    *)
(***************************************************************************)
\* the longest record list that is aggregated
MaxRecords == 3

\* record lists to aggregate: records with one, two and no contractor, one
\* that names the same contractor in two slots, records without region,
\* office, status, source of funds and cost, and a region named "Unknown"
AggregateInputs ==
    LET pool == { Contract("K1", "Road repair", "Acme", "i1", NULL, "NCR", "Office A",
                           "GAA", <<100>>, "Done", <<2020>>),
                  Contract("K2", "bridge ROAD", "Bolt", "i2", "Acme", "NCR", "Office B",
                           "Loan", <<50>>, "Done", <<2021>>),
                  Contract("K3", "Dike", NULL, NULL, NULL, NULL, NULL, NULL,
                           NoNum, NULL, NoNum),
                  Contract("K4", "school", "Acme", "i1", "Acme", "CAR", "Office A",
                           "GAA", <<70>>, "Ongoing", <<2020>>),
                  Contract("K5", "canal", "Bolt", "i2", NULL, "Unknown", "Office B",
                           NULL, NoNum, "Done", NoNum) }
    IN  UNION {[1..n -> pool] : n \in 0..MaxRecords}

InitAggregate ==
    /\ Idle /\ DataLayerIdle
    /\ given \in AggregateInputs
    /\ result = [done |-> FALSE, aggregates |-> getContractsAggregates(<<>>)]

\* getContractsAggregates runs on the record list
GetAggregates ==
    /\ ~result.done
    /\ result' = [done |-> TRUE, aggregates |-> getContractsAggregates(given)]
    /\ UNCHANGED <<uiVars, explorer, given, ioVars>>

NextAggregate == GetAggregates

SpecAggregate == InitAggregate /\ [][NextAggregate]_vars

(***************************************************************************)
(* The contracts table: the filter, sort and pagination handlers of        *)
(* ContractsExplorer and the pagination buttons of ContractsTable.         *)
(***************************************************************************)
\* how many records the table's record list has: more than one page of 50
TableCount == 51

\* the highest page the Next button is followed to
MaxTablePage == 4

\* the table's record list: two regions in turn, costs 1..TableCount, no
\* effectivity dates
TableData ==
    [i \in 1..TableCount |->
        Contract("T" \o TwoDigits(i), "road", "Acme", "i1", NULL,
                 IF i % 2 = 0 THEN "R1" ELSE "R2", "O1", "F1", <<i>>, "S1", <<2020>>)]

\* the options of the Rows-per-page select
PageSizes == {25, 50, 100, 200}

\* totalCount={filteredContracts.length}; the records have no date for the
\* time zone to act on
totalCount ==
    Len(useContractFilters(contracts, explorer.filters, explorer.sortConfig, "east").value)

\* the table's totalPages={Math.ceil(filteredContracts.length / pagination.pageSize)}
tableTotalPages == CeilDiv(totalCount, explorer.pagination.pageSize)

\* setPagination(prev => ({ ...prev, page: 1 }))
FirstPage(prev) == [prev EXCEPT !.page = 1]

InitTable ==
    /\ hash = "" /\ source = TableData /\ loading = FALSE /\ contracts = TableData
    /\ analyticsOpen = FALSE /\ drillDown = ClosedDrillDown /\ seen = ClosedDrillDown
    /\ drillDownActiveTab = "contracts" /\ drillDownPage = 1 /\ entityPage = 1
    /\ dimension = "by_contractor" /\ currentPage = 1 /\ navigated = FALSE
    /\ last = [op |-> "Init", depth |-> 0]
    /\ TableDefaults /\ DataLayerIdle
    /\ given = NULL /\ result = NULL

\* handleAddFilter(type, value)
AddFilter(type, value) ==
    /\ explorer' = [explorer EXCEPT
                      !.filters = IF ~ArrayIncludes(@[type], value)
                                  THEN [@ EXCEPT ![type] = Append(@, value)]
                                  ELSE @,
                      !.pagination = FirstPage(@)]
    /\ UNCHANGED <<uiVars, given, result, ioVars>>

\* handleRemoveFilter(type, index): the chip at position index + 1
RemoveFilter(type, index) ==
    /\ index + 1 \in 1..Len(explorer.filters[type])
    /\ explorer' = [explorer EXCEPT
                      !.filters[type] = SubSeq(@, 1, index) \o SubSeq(@, index + 2, Len(@)),
                      !.pagination = FirstPage(@)]
    /\ UNCHANGED <<uiVars, given, result, ioVars>>

\* handleClearFilters
ClearFilters ==
    /\ explorer' = [explorer EXCEPT !.filters = NoLists @@ NoRanges,
                                    !.pagination = FirstPage(@)]
    /\ UNCHANGED <<uiVars, given, result, ioVars>>

\* handleDateRangeChange(dateRange)
DateRangeChange(dateRange) ==
    /\ explorer' = [explorer EXCEPT !.filters.dateRange = dateRange,
                                    !.pagination = FirstPage(@)]
    /\ UNCHANGED <<uiVars, given, result, ioVars>>

\* handleValueRangeChange(valueRange)
ValueRangeChange(valueRange) ==
    /\ explorer' = [explorer EXCEPT !.filters.valueRange = valueRange,
                                    !.pagination = FirstPage(@)]
    /\ UNCHANGED <<uiVars, given, result, ioVars>>

\* handleSort(field): a click on a column header
SortChange(field) ==
    /\ explorer' = [explorer EXCEPT
                      !.sortConfig =
                          [field     |-> field,
                           direction |-> IF @.field = field /\ @.direction = "desc"
                                         THEN "asc" ELSE "desc"]]
    /\ UNCHANGED <<uiVars, given, result, ioVars>>

\* the Previous button: disabled on page 1, else handlePageChange(currentPage - 1)
PreviousPage ==
    /\ explorer.pagination.page # 1
    /\ explorer' = [explorer EXCEPT !.pagination.page = @ - 1]
    /\ UNCHANGED <<uiVars, given, result, ioVars>>

\* the Next button: disabled when currentPage === totalPages, else
\* handlePageChange(currentPage + 1)
NextPage ==
    /\ explorer.pagination.page # tableTotalPages
    /\ explorer.pagination.page < MaxTablePage
    /\ explorer' = [explorer EXCEPT !.pagination.page = @ + 1]
    /\ UNCHANGED <<uiVars, given, result, ioVars>>

\* handlePageSizeChange(pageSize)
PageSizeChange(size) ==
    /\ explorer' = [explorer EXCEPT !.pagination = [pageSize |-> size, page |-> 1]]
    /\ UNCHANGED <<uiVars, given, result, ioVars>>

NextTable ==
    \/ \E choice \in {<<"regions", "R1">>, <<"keywords", "zzz">>} :
          AddFilter(choice[1], choice[2])
    \/ \E type \in {"regions", "keywords"} : RemoveFilter(type, 0)
    \/ ClearFilters
    \/ \E dateRange \in {AllTime, [AllTime EXCEPT !.type = "yearly", !.year = <<2020>>]} :
          DateRangeChange(dateRange)
    \/ \E min \in {NoNum, <<27>>} : ValueRangeChange([min |-> min, max |-> NoNum])
    \/ \E field \in {"cost_php", "year"} : SortChange(field)
    \/ PreviousPage
    \/ NextPage
    \/ \E size \in PageSizes : PageSizeChange(size)

SpecTable == InitTable /\ [][NextTable]_vars

(***************************************************************************)
(* Pagination as a pure function: the pages of a sorted list are read one   *)
(* after the other (paginatedContracts, paginatedData).                     *)
(***************************************************************************)
\* the longest list that is paged
MaxItems == 9

\* the largest page size
MaxSize == 5

\* a sorted list of distinct records (their ranks) and a page size
PageInputs ==
    [items : {[i \in 1..n |-> i] : n \in 0..MaxItems}, size : 1..MaxSize]

InitPages ==
    /\ Idle /\ DataLayerIdle
    /\ given \in PageInputs
    /\ result = [page |-> 0, read |-> <<>>]

\* the next page is rendered, and its rows are appended to what was read
ReadPage ==
    /\ result.page < CeilDiv(Len(given.items), given.size)
    /\ result' = [page |-> result.page + 1,
                  read |-> result.read \o PageSlice(given.items, result.page + 1,
                                                    given.size)]
    /\ UNCHANGED <<uiVars, explorer, given, ioVars>>

NextPages == ReadPage

SpecPages == InitPages /\ [][NextPages]_vars

(***************************************************************************)
(* The data layer: the loaders, the IndexedDB cache and the provider.      *)
(* Every await of a loader is a point where another load may run, so each  *)
(* action is the code between two awaits of one call.                      *)
(***************************************************************************)
\* the number of versions of the data file that get deployed
MaxVersion == 2

\* the number of loader calls that are started
MaxLoads == 2

\* the records of version v of the deployed data file
Deployed(v) == SubSeq(DataSmall, 1, v + 1)

\* the filter-option aggregates of a record set; a sorted array of distinct
\* values is written as the set of its values
computeAggregates(cs) ==
    LET At == 1..Len(cs)
        LeastOr0(S) == IF S = {} THEN 0 ELSE CHOOSE x \in S : \A y \in S : x <= y
        GreatestOr0(S) == IF S = {} THEN 0 ELSE CHOOSE x \in S : \A y \in S : x >= y
        costs == {cs[i].cost_php[1] : i \in {k \in At : cs[k].cost_php # NoNum}}
    IN  [regions |-> {cs[i].region : i \in {k \in At : Truthy(cs[k].region)}},
         implementingOffices |->
             {cs[i].implementing_office : i \in {k \in At : Truthy(cs[k].implementing_office)}},
         contractors |-> UNION {{getContractorNames(cs[i])[k] :
                                    k \in 1..Len(getContractorNames(cs[i]))} : i \in At},
         statuses |-> {cs[i].status : i \in {k \in At : Truthy(cs[k].status)}},
         years |-> {cs[i].year[1] : i \in {k \in At : cs[k].year # NoNum}},
         sourcesOfFunds |->
             {cs[i].source_of_funds : i \in {k \in At : Truthy(cs[k].source_of_funds)}},
         minCost |-> LeastOr0(costs),
         maxCost |-> GreatestOr0(costs)]

\* what a session that loaded version v and finished left in IndexedDB; `by`
\* records the load that wrote each key, 0 for a load of an earlier session
CachedBy(loader, v) ==
    [contracts |-> IF loader = "csv" THEN <<Deployed(v)>> ELSE Undefined,
     aggregates |-> <<computeAggregates(Deployed(v))>>,
     timestamp |-> <<[metadata |-> TRUE, at |-> v]>>,
     by |-> [contracts |-> 0, aggregates |-> 0, timestamp |-> 0]]

\* a call of loadContractsAndAggregates (csv) or
\* loadContractsAndAggregatesParquet (parquet) at its first await
NewLoad(loader, forceReload) ==
    [loader |-> loader, forceReload |-> forceReload, pc |-> "metadata",
     currentTimestamp |-> Undefined, cached |-> Undefined, cachedAgg |-> Undefined,
     cachedTimestamp |-> Undefined, contracts |-> Undefined, aggregates |-> Undefined,
     hit |-> FALSE, downloaded |-> FALSE, wrote |-> FALSE, returned |-> Undefined,
     lastUpdated |-> Undefined,
     from |-> [contracts |-> 0, aggregates |-> 0, timestamp |-> 0],
     resume |-> "", concurrent |-> FALSE]

\* what every step of a load leaves alone
LoadFrame == UNCHANGED <<uiVars, explorer, given, result>>

\* the data file and contracts_metadata.json are deployed together
PublishUpdate ==
    /\ server < MaxVersion
    /\ server' = server + 1
    /\ UNCHANGED <<cache, loads, service, provider>> /\ LoadFrame

\* a caller starts loadContractsAndAggregates(forceReload)
CallLoader(forceReload) ==
    /\ Len(loads) < MaxLoads
    /\ loads' = Append(loads, NewLoad("csv", forceReload))
    /\ UNCHANGED <<server, cache, service, provider>> /\ LoadFrame

\* fetch(METADATA_URL) and json() resolve, or fail and the catch block takes
\* the clock's time, which no lastUpdated and no other load's clock time equals.
\* lastUpdated records what the deployed metadata file held at that moment.
FetchMetadata(p, ok) ==
    /\ loads[p].pc = "metadata"
    /\ loads' = [loads EXCEPT
          ![p].lastUpdated = <<[metadata |-> TRUE, at |-> server]>>,
          ![p].currentTimestamp = <<[metadata |-> ok, at |-> IF ok THEN server ELSE p]>>,
          ![p].pc = IF ~loads[p].forceReload
                    THEN (IF loads[p].loader = "csv" THEN "getContracts" ELSE "getAggregates")
                    ELSE (IF loads[p].loader = "csv" THEN "download" ELSE "init1")]
    /\ UNCHANGED <<server, cache, service, provider>> /\ LoadFrame

\* const cached = await get(CACHE_KEY)
GetCachedContracts(p) ==
    /\ loads[p].pc = "getContracts"
    /\ loads' = [loads EXCEPT ![p].cached = cache.contracts,
                               ![p].from.contracts = cache.by.contracts,
                               ![p].pc = "getAggregates"]
    /\ UNCHANGED <<server, cache, service, provider>> /\ LoadFrame

\* const cachedAgg = await get(AGGREGATES_KEY)
GetCachedAggregates(p) ==
    /\ loads[p].pc = "getAggregates"
    /\ loads' = [loads EXCEPT ![p].cachedAgg = cache.aggregates,
                               ![p].from.aggregates = cache.by.aggregates,
                               ![p].pc = "getTimestamp"]
    /\ UNCHANGED <<server, cache, service, provider>> /\ LoadFrame

\* the test "cache is valid" of a load that read cached, cachedAgg and ts
CacheValid(l, ts) ==
    /\ l.loader = "csv" => l.cached # Undefined
    /\ l.cachedAgg # Undefined
    /\ ts = l.currentTimestamp

\* const cachedTimestamp = await get(CACHE_TIMESTAMP_KEY), and the test that
\* follows: the csv loader returns the cached values, the parquet loader goes
\* on to initialize the service, an invalid cache leads to the download
GetCachedTimestamp(p) ==
    /\ loads[p].pc = "getTimestamp"
    /\ \E valid \in {CacheValid(loads[p], cache.timestamp)} :
          loads' = [loads EXCEPT
             ![p].cachedTimestamp = cache.timestamp,
             ![p].from.timestamp = cache.by.timestamp,
             ![p].hit = valid,
             ![p].returned = IF valid /\ loads[p].loader = "csv"
                             THEN <<[contracts |-> loads[p].cached[1],
                                     aggregates |-> loads[p].cachedAgg[1]]>>
                             ELSE @,
             ![p].pc = IF loads[p].loader = "csv"
                       THEN (IF valid THEN "done" ELSE "download")
                       ELSE "init1"]
    /\ UNCHANGED <<server, cache, service, provider>> /\ LoadFrame

\* fetch(CSV_URL), text(), Papa.parse and the aggregates loop; a parse error
\* is thrown
Download(p, ok) ==
    /\ loads[p].pc = "download"
    /\ loads' = [loads EXCEPT
          ![p].downloaded = TRUE,
          ![p].contracts = IF ok THEN <<Deployed(server)>> ELSE @,
          ![p].aggregates = IF ok THEN <<computeAggregates(Deployed(server))>> ELSE @,
          ![p].pc = IF ok THEN "setContracts" ELSE "failed"]
    /\ UNCHANGED <<server, cache, service, provider>> /\ LoadFrame

\* await set(CACHE_KEY, contracts)
SetContracts(p) ==
    /\ loads[p].pc = "setContracts"
    /\ cache' = [cache EXCEPT !.contracts = loads[p].contracts, !.by.contracts = p]
    /\ loads' = [loads EXCEPT ![p].wrote = TRUE, ![p].pc = "setAggregates"]
    /\ UNCHANGED <<server, service, provider>> /\ LoadFrame

\* await set(AGGREGATES_KEY, aggregates)
SetAggregates(p) ==
    /\ loads[p].pc = "setAggregates"
    /\ cache' = [cache EXCEPT !.aggregates = loads[p].aggregates, !.by.aggregates = p]
    /\ loads' = [loads EXCEPT ![p].wrote = TRUE, ![p].pc = "setTimestamp"]
    /\ UNCHANGED <<server, service, provider>> /\ LoadFrame

\* the last write stores the timestamp the load read from the cache
SetTimestampRead(p) ==
    /\ loads[p].pc = "setTimestamp"
    /\ cache' = [cache EXCEPT !.timestamp = loads[p].cachedTimestamp, !.by.timestamp = p]
    /\ loads' = [loads EXCEPT
          ![p].wrote = TRUE,
          ![p].returned = <<[contracts |-> loads[p].contracts[1],
                             aggregates |-> loads[p].aggregates[1]]>>,
          ![p].pc = "done"]
    /\ UNCHANGED <<server, service, provider>> /\ LoadFrame

\* await set(CACHE_TIMESTAMP_KEY, currentTimestamp); return { contracts, aggregates }
SetTimestamp(p) ==
    /\ loads[p].pc = "setTimestamp"
    /\ cache' = [cache EXCEPT !.timestamp = loads[p].currentTimestamp, !.by.timestamp = p]
    /\ loads' = [loads EXCEPT
          ![p].wrote = TRUE,
          ![p].returned = <<[contracts |-> loads[p].contracts[1],
                             aggregates |-> loads[p].aggregates[1]]>>,
          ![p].pc = "done"]
    /\ UNCHANGED <<server, service, provider>> /\ LoadFrame

\* the page, or an earlier session of it, starts with version 1 deployed and
\* the cache empty or filled by a finished load of version 1
InitLoader ==
    /\ Idle
    /\ given = NULL /\ result = NULL
    /\ server = 1
    /\ cache \in {CachedBy("csv", 1),
                  [contracts |-> Undefined, aggregates |-> Undefined, timestamp |-> Undefined,
                   by |-> [contracts |-> 0, aggregates |-> 0, timestamp |-> 0]]}
    /\ loads = <<>>
    /\ service = [initialized |-> FALSE, initializing |-> FALSE, conn |-> FALSE,
                  registered |-> Undefined, bodies |-> 0]
    /\ provider = [contracts |-> <<>>, aggregates |-> Undefined, loading |-> TRUE,
                   error |-> FALSE]

NextLoader ==
    \/ PublishUpdate
    \/ \E forceReload \in BOOLEAN : CallLoader(forceReload)
    \/ \E p \in 1..Len(loads), ok \in BOOLEAN : FetchMetadata(p, ok)
    \/ \E p \in 1..Len(loads) : GetCachedContracts(p)
    \/ \E p \in 1..Len(loads) : GetCachedAggregates(p)
    \/ \E p \in 1..Len(loads) : GetCachedTimestamp(p)
    \/ \E p \in 1..Len(loads), ok \in BOOLEAN : Download(p, ok)
    \/ \E p \in 1..Len(loads) : SetContracts(p)
    \/ \E p \in 1..Len(loads) : SetAggregates(p)
    \/ \E p \in 1..Len(loads) : SetTimestamp(p)

SpecLoader == InitLoader /\ [][NextLoader]_vars

(***************************************************************************)
(* ContractsDataProvider, the parquet loader and ContractsParquetService.  *)
(***************************************************************************)
\* a load is in flight until loadData has stored its outcome
InFlight(l) == l.pc # "settled"

\* ContractsDataProvider.loadData up to the loader's first await; the effect
\* on mount calls loadData(), reload calls loadData(true)
LoadData(forceReload) ==
    /\ Len(loads) < MaxLoads
    /\ forceReload = (Len(loads) # 0)
    /\ loads' = Append(loads,
                       [NewLoad("parquet", forceReload) EXCEPT
                           !.concurrent = \E q \in 1..Len(loads) : InFlight(loads[q])])
    /\ provider' = [provider EXCEPT !.loading = TRUE, !.error = FALSE]
    /\ UNCHANGED <<server, cache, service>> /\ LoadFrame

\* where a caller of initialize() goes on when the call resolves: the loader
\* calls initialize(), then loadContracts() and getAggregates(), which begin
\* with a call of initialize() too
AfterInitialize(pc) ==
    CASE pc = "init1" -> "init2"
      [] pc = "init2" -> "queryContracts"
      [] pc = "init3" -> "queryAggregates"

\* ContractsParquetService.initialize() up to its first await: return when
\* initialized, wait when another call is initializing, else start the body
Initialize(p) ==
    /\ loads[p].pc \in {"init1", "init2", "init3"}
    /\ IF service.initialized
       THEN /\ loads' = [loads EXCEPT ![p].pc = AfterInitialize(loads[p].pc)]
            /\ UNCHANGED service
       ELSE IF service.initializing
       THEN /\ loads' = [loads EXCEPT ![p].resume = AfterInitialize(loads[p].pc),
                                      ![p].pc = "waiting"]
            /\ UNCHANGED service
       ELSE /\ loads' = [loads EXCEPT ![p].resume = AfterInitialize(loads[p].pc),
                                      ![p].pc = "connect"]
            /\ service' = [service EXCEPT !.initializing = TRUE, !.bodies = @ + 1]
    /\ UNCHANGED <<server, cache, provider>> /\ LoadFrame

\* selectBundle, instantiate and connect; an error is thrown again after the
\* finally block has cleared initializing
Connect(p, ok) ==
    /\ loads[p].pc = "connect"
    /\ service' = IF ok THEN [service EXCEPT !.conn = TRUE]
                  ELSE [service EXCEPT !.initializing = FALSE, !.bodies = @ - 1]
    /\ loads' = [loads EXCEPT ![p].pc = IF ok THEN "register" ELSE "failed"]
    /\ UNCHANGED <<server, cache, provider>> /\ LoadFrame

\* fetch(PARQUET_URL), registerFileBuffer, CREATE VIEW, initialized = true;
\* finally initializing = false
Register(p, ok) ==
    /\ loads[p].pc = "register"
    /\ service' = IF ok
                  THEN [service EXCEPT !.registered = <<server>>, !.initialized = TRUE,
                                       !.initializing = FALSE, !.bodies = @ - 1]
                  ELSE [service EXCEPT !.initializing = FALSE, !.bodies = @ - 1]
    /\ loads' = [loads EXCEPT ![p].pc = IF ok THEN loads[p].resume ELSE "failed"]
    /\ UNCHANGED <<server, cache, provider>> /\ LoadFrame

\* the waiting caller wakes up and finds initializing false: return
Poll(p) ==
    /\ loads[p].pc = "waiting"
    /\ ~service.initializing
    /\ loads' = [loads EXCEPT ![p].pc = loads[p].resume]
    /\ UNCHANGED <<server, cache, service, provider>> /\ LoadFrame

\* query() can answer: there is a connection and the view it reads exists
CanQuery == service.conn /\ service.registered # Undefined

\* loadContracts() after its initialize(): SELECT * FROM contracts; on the
\* cache-hit path the loader returns { contracts, aggregates: cachedAgg }
QueryContracts(p) ==
    /\ loads[p].pc = "queryContracts"
    /\ loads' = IF ~CanQuery THEN [loads EXCEPT ![p].pc = "failed"]
                ELSE [loads EXCEPT
                        ![p].downloaded = TRUE,
                        ![p].contracts = <<Deployed(service.registered[1])>>,
                        ![p].returned = IF loads[p].hit
                                        THEN <<[contracts |-> Deployed(service.registered[1]),
                                                aggregates |-> loads[p].cachedAgg[1]]>>
                                        ELSE @,
                        ![p].pc = IF loads[p].hit THEN "done" ELSE "init3"]
    /\ UNCHANGED <<server, cache, service, provider>> /\ LoadFrame

\* getAggregates() after its initialize(): the DISTINCT and MIN/MAX queries
QueryAggregates(p) ==
    /\ loads[p].pc = "queryAggregates"
    /\ loads' = IF ~CanQuery THEN [loads EXCEPT ![p].pc = "failed"]
                ELSE [loads EXCEPT
                        ![p].aggregates = <<computeAggregates(Deployed(service.registered[1]))>>,
                        ![p].pc = "setAggregates"]
    /\ UNCHANGED <<server, cache, service, provider>> /\ LoadFrame

\* loadData after its await: setContracts, setAggregates and setLoading(false)
\* in one update, or setError and setLoading(false) when the loader threw
Settle(p) ==
    /\ loads[p].pc \in {"done", "failed"}
    /\ provider' = IF loads[p].pc = "done"
                   THEN [provider EXCEPT !.contracts = loads[p].returned[1].contracts,
                                         !.aggregates = <<loads[p].returned[1].aggregates>>,
                                         !.loading = FALSE]
                   ELSE [provider EXCEPT !.error = TRUE, !.loading = FALSE]
    /\ loads' = [loads EXCEPT ![p].pc = "settled"]
    /\ UNCHANGED <<server, cache, service>> /\ LoadFrame

\* the provider mounts with version 1 deployed and the cache empty or filled
\* by a finished load of version 1 in an earlier session
InitProvider ==
    /\ Idle
    /\ given = NULL /\ result = NULL
    /\ server = 1
    /\ cache \in {CachedBy("parquet", 1),
                  [contracts |-> Undefined, aggregates |-> Undefined, timestamp |-> Undefined,
                   by |-> [contracts |-> 0, aggregates |-> 0, timestamp |-> 0]]}
    /\ loads = <<>>
    /\ service = [initialized |-> FALSE, initializing |-> FALSE, conn |-> FALSE,
                  registered |-> Undefined, bodies |-> 0]
    /\ provider = [contracts |-> <<>>, aggregates |-> Undefined, loading |-> TRUE,
                   error |-> FALSE]

NextProvider ==
    \/ PublishUpdate
    \/ \E forceReload \in BOOLEAN : LoadData(forceReload)
    \/ \E p \in 1..Len(loads), ok \in BOOLEAN : FetchMetadata(p, ok)
    \/ \E p \in 1..Len(loads) : GetCachedAggregates(p)
    \/ \E p \in 1..Len(loads) : GetCachedTimestamp(p)
    \/ \E p \in 1..Len(loads) : Initialize(p)
    \/ \E p \in 1..Len(loads), ok \in BOOLEAN : Connect(p, ok)
    \/ \E p \in 1..Len(loads), ok \in BOOLEAN : Register(p, ok)
    \/ \E p \in 1..Len(loads) : Poll(p)
    \/ \E p \in 1..Len(loads) : QueryContracts(p)
    \/ \E p \in 1..Len(loads) : QueryAggregates(p)
    \/ \E p \in 1..Len(loads) : SetAggregates(p)
    \/ \E p \in 1..Len(loads) : SetTimestamp(p)
    \/ \E p \in 1..Len(loads) : Settle(p)

SpecProvider == InitProvider /\ [][NextProvider]_vars

(***************************************************************************)
(* Properties of the drill-down controller.                                *)
(***************************************************************************)
\* the (dimension, valueId) pins of a breadcrumb trail
Pins(breadcrumbs) ==
    [i \in 1..Len(breadcrumbs) |-> <<breadcrumbs[i].entityType, breadcrumbs[i].entityId>>]

\* the trail after the step is the trail before it plus one pin of dimension type
Appended(type) ==
    /\ drillDown'.open
    /\ Len(drillDown'.breadcrumbs) = Len(drillDown.breadcrumbs) + 1
    /\ SubSeq(Pins(drillDown'.breadcrumbs), 1, Len(drillDown.breadcrumbs))
          = Pins(drillDown.breadcrumbs)
    /\ drillDown'.breadcrumbs[Len(drillDown'.breadcrumbs)].entityType = type

\* the valueId of the last breadcrumb after the step
LastId == drillDown'.breadcrumbs[Len(drillDown'.breadcrumbs)].entityId

RowSelected(i) ==
    /\ Appended(TypeOfTab(drillDownActiveTab))
    /\ drillDownActiveTab # "contractors" => LastId = paginatedEntityData[i].name

TopSelected(i) ==
    /\ Appended(TypeOfDimension(dimension))
    /\ dimension # "by_contractor" => LastId = paginatedData[i].name

AncestorReached(index) ==
    /\ drillDown'.open
    /\ Pins(drillDown'.breadcrumbs) = SubSeq(Pins(drillDown.breadcrumbs), 1, index)

\* C1: selecting an entity row in Drilled(k), or in Closed (k = 0), leads to
\* Drilled(k+1): the first k breadcrumbs are unchanged and the last one is the
\* selected (dimension, value); navigating to an ancestor breadcrumb leads to
\* the trail cut back to that ancestor (Drilled(k-1) for the parent); these
\* two actions change the breadcrumbs in no other way.
C1_Transitions ==
    [][ /\ \A i \in 1..MaxRow : RowClick(i) => RowSelected(i)
        /\ \A i \in 1..MaxRow : TopEntityClick(i) => TopSelected(i)
        /\ \A index \in 1..MaxDepth : BreadcrumbClick(index) => AncestorReached(index)
      ]_vars

\* the field a breadcrumb of the given dimension constrains
FieldValue(c, type) ==
    CASE type = "contractor"          -> c.contractor_id_1
      [] type = "region"              -> c.region
      [] type = "implementing_office" -> c.implementing_office
      [] type = "status"              -> c.status
      [] type = "source_of_funds"     -> c.source_of_funds

\* the records that satisfy the equality predicate of one breadcrumb
Satisfying(bc) ==
    {contracts[k] : k \in {n \in 1..Len(contracts) :
                              FieldValue(contracts[n], bc.entityType) = bc.entityId}}

InEverySet(c) ==
    \A i \in 1..Len(drillDown.breadcrumbs) : c \in Satisfying(drillDown.breadcrumbs[i])

\* C2: in every Drilled(k) state drillDownContracts is exactly the records, in
\* source order, that lie in the intersection of the k sets of records
\* satisfying one breadcrumb each; it is a function of the record set and the
\* breadcrumb list of the state, whatever way the state was reached.
C2_Intersection ==
    (drillDown.open /\ Len(drillDown.breadcrumbs) > 0)
        => DDContracts = SelectSeq(contracts, InEverySet)

\* a Drilled(2) state whose subset is not empty and smaller than the set of
\* one of its breadcrumbs
C2_Witness ==
    /\ drillDown.open /\ Len(drillDown.breadcrumbs) = 2
    /\ Len(DDContracts) > 0
    /\ \E i \in 1..2 : Cardinality(Satisfying(drillDown.breadcrumbs[i])) > Len(DDContracts)

\* C3: the close action of the drill-down, from any Drilled(k) with k >= 1,
\* leads to Closed (drill-down not open, no breadcrumbs, analytics unmounted),
\* and re-opening analytics afterwards starts from Closed.
C3_CloseLeadsToClosed ==
    /\ (last.op = "CloseModal" /\ last.depth >= 1)
          => (~drillDown.open /\ drillDown.breadcrumbs = <<>> /\ ~analyticsOpen)
    /\ last.op = "ShowAnalytics"
          => (analyticsOpen /\ ~drillDown.open /\ drillDown.breadcrumbs = <<>>)

\* the drill-down was closed from a Drilled state
C3_Witness ==
    last.op = "CloseModal" /\ last.depth >= 1 /\ ~drillDown.open /\ hash = ""

\* C4: a switch of the active drill-down tab (to any visible tab, 'contracts'
\* included) leaves the breadcrumb trail as it was and leaves the page cursor
\* of the newly active tab at 1.
C4_TabSwitch ==
    [][ (last'.op = "TabClick" /\ drillDownActiveTab' # drillDownActiveTab)
            => /\ Pins(drillDown'.breadcrumbs) = Pins(drillDown.breadcrumbs)
               /\ IF drillDownActiveTab' = "contracts"
                  THEN drillDownPage' = 1 ELSE entityPage' = 1
      ]_vars

\* C5: in every Drilled state reached by row selections, tab switches and
\* ancestor navigation, no tab of a dimension pinned by a breadcrumb is
\* offered, no breadcrumb trail pins a dimension twice, and the active tab is
\* one of the tabs offered.
C5_NoPinnedDimension ==
    (drillDown.open /\ ~navigated)
        => /\ \A i, j \in 1..Len(drillDown.breadcrumbs) :
                 i # j => drillDown.breadcrumbs[i].entityType
                              # drillDown.breadcrumbs[j].entityType
           /\ \A i \in 1..Len(drillDown.breadcrumbs) :
                 \A k \in 1..Len(visibleTabs(drillDown.breadcrumbs)) :
                    TypeOfTab(visibleTabs(drillDown.breadcrumbs)[k])
                        # drillDown.breadcrumbs[i].entityType
           /\ \E k \in 1..Len(visibleTabs(drillDown.breadcrumbs)) :
                 visibleTabs(drillDown.breadcrumbs)[k] = drillDownActiveTab

\* a Drilled(2) state reached by a row selection, on a tab other than contracts
C5_Witness ==
    /\ drillDown.open /\ ~navigated /\ analyticsOpen
    /\ Len(drillDown.breadcrumbs) = 2
    /\ drillDownActiveTab # "contracts"

\* the least element of a non-empty set of numbers
Least(S) == CHOOSE x \in S : \A y \in S : x <= y

\* the records of cs whose contractor_name_1 is n, as positions
Named(cs, n) == {k \in 1..Len(cs) : cs[k].contractor_name_1 = n}

\* the breadcrumb appended for the row called n pins the contractor_id_1 of
\* the first record of cs, in source order, whose contractor_name_1 is n
PinsFirstId(cs, n) ==
    /\ Named(cs, n) # {}
    /\ Truthy(cs[Least(Named(cs, n))].contractor_id_1)
    /\ LastId = cs[Least(Named(cs, n))].contractor_id_1

\* C7: when a contractor row with display name n is selected, the appended
\* breadcrumb pins a contractor identifier, not the display name: the
\* contractor_id_1 of the first record in source order, among the records the
\* row was aggregated from, whose contractor_name_1 equals n.
C7_ContractorPinsId ==
    [][ /\ \A i \in 1..MaxRow :
              (RowClick(i) /\ drillDownActiveTab = "contractors")
                 => PinsFirstId(DDContracts, paginatedEntityData[i].name)
        /\ \A i \in 1..MaxRow :
              (TopEntityClick(i) /\ dimension = "by_contractor")
                 => PinsFirstId(contracts, paginatedData[i].name)
      ]_vars

\* C6: writing a valid DrillDownState (ordered breadcrumbs of (dimension,
\* valueId) and the active tab) to the hash and parsing the hash back yields
\* the same dimensions and valueIds in the same order and the same tab.
C6_RoundTrip ==
    result.stage = "parsed"
        => /\ Pins(result.breadcrumbs) = Pins(given.breadcrumbs)
           /\ result.tab = given.tab

\* the records of a list, as a set
Records(xs) == {xs[i] : i \in 1..Len(xs)}

\* C8: the drill-down subset of the breadcrumb path [region=r, status=s] holds
\* exactly the records the filter engine returns for {regions:[r],
\* statuses:[s]} with every other dimension unconstrained: the table's filter
\* returns, and returns those records, and so does the analytics filter.
C8_DrillDownIsFilter ==
    "drill" \in result.done
        => /\ "table" \in result.done
                => /\ ~result.table.threw
                   /\ Records(result.table.value) = Records(result.drill)
           /\ "analytics" \in result.done
                => Records(result.analytics) = Records(result.drill)

\* a list of selected values is empty or holds the record's value
Allows(wanted, value) == Len(wanted) = 0 \/ ArrayIncludes(wanted, value)

\* C9: the table's filter returns exactly the records that satisfy every
\* non-empty dimension (region, office, contractor, status, year, source of
\* funds): the record's value is one of the selected values, for contractors
\* one of its contractor names contains one of the selected values whatever
\* the case; an empty list constrains nothing.  (No keywords given.)
C9_FilterIsMembership ==
    ("table" \in result.done /\ Len(given.filters.keywords) = 0)
        => /\ ~result.table.threw
           /\ Records(result.table.value) =
                { c \in Records(given.records) :
                    /\ Allows(given.filters.regions, c.region)
                    /\ Allows(given.filters.implementing_offices, c.implementing_office)
                    /\ \/ Len(given.filters.contractors) = 0
                       \/ \E j \in 1..Len(getContractorNames(c)) :
                             SomeIncludesLower(getContractorNames(c)[j],
                                               given.filters.contractors)
                    /\ Allows(given.filters.statuses, c.status)
                    /\ \/ Len(given.filters.years) = 0
                       \/ c.year # NoNum /\ ArrayIncludes(given.filters.years, c.year[1])
                    /\ Allows(given.filters.source_of_funds, c.source_of_funds) }

\* every keyword occurs in the text, whatever the case
EveryKeyword(text, keywords) ==
    \A k \in 1..Len(keywords) : Includes(ToLowerCase(text), ToLowerCase(keywords[k]))

WithoutKeywords(f) == [f EXCEPT !.keywords = <<>>]

\* C10: with a non-empty keyword list, of the records the other dimensions
\* keep, a filter keeps exactly those whose searchable text contains EVERY
\* keyword, whatever the case; in the table's filter and in the analytics
\* filter, each over the text it searches.
C10_EveryKeyword ==
    Len(given.filters.keywords) > 0
        => /\ ("table" \in result.done /\ ~result.table.threw)
                => Records(result.table.value) =
                     { c \in Records(useContractFilters(given.records,
                                        WithoutKeywords(given.filters),
                                        given.sortConfig, given.zone).value) :
                         EveryKeyword(JoinItem(c.description) \o " "
                                          \o JoinItem(c.contract_id),
                                      given.filters.keywords) }
           /\ "analytics" \in result.done
                => Records(result.analytics) =
                     { c \in Records(filteredContracts(given.records,
                                        WithoutKeywords(given.filters), given.zone)) :
                         EveryKeyword(AnalyticsSearchText(c), given.filters.keywords) }

\* the record's effectivity date is a calendar date in the range
InRange(c, dateRange) ==
    \/ dateRange.type = "all_time"
    \/ /\ c.effectivity_date # NULL
       /\ NewDate(c.effectivity_date).valid
       /\ \/ /\ dateRange.type = "yearly"
             /\ NewDate(c.effectivity_date).y = dateRange.year[1]
          \/ /\ dateRange.type = "quarterly"
             /\ NewDate(c.effectivity_date).y = dateRange.year[1]
             /\ (NewDate(c.effectivity_date).m + 2) \div 3 = dateRange.quarter[1]
          \/ /\ dateRange.type = "custom"
             /\ TimeValue(NewDate(dateRange.startDate))
                   <= TimeValue(NewDate(c.effectivity_date))
             /\ TimeValue(NewDate(c.effectivity_date))
                   <= TimeValue(NewDate(dateRange.endDate))

\* no list and no cost bound of the filter spec is set
OnlyDateRange(f) == f = NoLists @@ [NoRanges EXCEPT !.dateRange = f.dateRange]

\* C11: the date-range filter keeps every record under all_time; under yearly
\* exactly the records whose effectivity date lies in the given calendar
\* year; under quarterly exactly those in the given year and quarter
\* (ceil(month/3)); under custom exactly those with startDate <= date <=
\* endDate; and outside all_time never a record whose date is missing or
\* unparseable.
C11_DateRange ==
    ("table" \in result.done /\ OnlyDateRange(given.filters))
        => /\ ~result.table.threw
           /\ Records(result.table.value) =
                {c \in Records(given.records) : InRange(c, given.filters.dateRange)}

\* the cost bounds that are set, as sets of numbers
LowerBounds(f) == {b[1] : b \in {f.minCost, f.valueRange.min} \ {NoNum}}

UpperBounds(f) == {b[1] : b \in {f.maxCost, f.valueRange.max} \ {NoNum}}

\* no list and no date range of the filter spec is set
OnlyCostRange(f) == f = NoLists @@ [f EXCEPT !.dateRange = AllTime]

\* C12: with a lower and/or an upper cost bound set, the filter returns
\* exactly the records whose cost is not null and lies within the bounds, the
\* bounds included; a record without cost is excluded as soon as a bound is
\* set; with min > max the result is empty, and no error is raised.
C12_CostRange ==
    ("table" \in result.done /\ OnlyCostRange(given.filters))
        => /\ ~result.table.threw
           /\ Records(result.table.value) =
                {c \in Records(given.records) :
                    (LowerBounds(given.filters) \cup UpperBounds(given.filters) # {})
                       => /\ c.cost_php # NoNum
                          /\ \A min \in LowerBounds(given.filters) : min <= c.cost_php[1]
                          /\ \A max \in UpperBounds(given.filters) : c.cost_php[1] <= max}

\* bounds equal to two records' costs kept both records and dropped the
\* record without cost
C12_Witness ==
    /\ "table" \in result.done /\ OnlyCostRange(given.filters)
    /\ given.filters.minCost = <<50>> /\ given.filters.maxCost = <<70>>
    /\ \E i \in 1..Len(result.table.value) : result.table.value[i].cost_php = <<50>>
    /\ \E i \in 1..Len(result.table.value) : result.table.value[i].cost_php = <<70>>
    /\ \E c \in Records(given.records) : c.cost_php = NoNum

Malformed(c) ==
    c.region = NULL \/ c.implementing_office = NULL \/ c.source_of_funds = NULL
        \/ c.cost_php = NoNum

\* C14: applying a filter spec to records some of which lack the region, the
\* implementing office, the source of funds or the cost never raises an error,
\* and such a record is not removed by a dimension that sets no constraint:
\* with the empty filter spec every record is returned.
C14_NeverRaises ==
    ("table" \in result.done /\ \E c \in Records(given.records) : Malformed(c))
        => /\ ~result.table.threw
           /\ given.filters = NoLists @@ NoRanges
                 => Records(result.table.value) = Records(given.records)

\* C15: for every sort field and both directions, in the sorted output no
\* record whose sort-field value is null or undefined is directly followed by
\* a record whose value is not: the records without the value come last.
C15_NullsLast ==
    ("table" \in result.done /\ ~result.table.threw)
        => \A i \in 1..(Len(result.table.value) - 1) :
              IsNullish(result.table.value[i], given.sortConfig.field)
                 => IsNullish(result.table.value[i + 1], given.sortConfig.field)

\* a descending sort by a text field of five records, the second and the
\* last of which had no value, returned the two at the end
C15_Witness ==
    /\ "table" \in result.done /\ ~result.table.threw
    /\ given.sortConfig = [field |-> "region", direction |-> "desc"]
    /\ Len(result.table.value) = 5
    /\ IsNullish(given.records[2], "region") /\ ~IsNullish(given.records[3], "region")
    /\ ~IsNullish(result.table.value[3], "region")
    /\ IsNullish(result.table.value[4], "region")
    /\ IsNullish(result.table.value[5], "region")

\* the counts of an aggregation's groups, added up
CountSum(groups) == SumSeq(ArrayFrom([p \in 1..Len(groups) |-> groups[p].count]))

\* every record is in exactly one group of the aggregation over `field`: the
\* group named by its value, or "Unknown" when it has none
Partitions(groups, cs, field) ==
    /\ CountSum(groups) = Len(cs)
    /\ \A p, q \in 1..Len(groups) : groups[p].name = groups[q].name => p = q
    /\ \A p \in 1..Len(groups) :
          groups[p].count =
             Cardinality({i \in 1..Len(cs) :
                            IF cs[i][field] = NULL THEN groups[p].name = "Unknown"
                            ELSE groups[p].name = cs[i][field]})
    /\ \A i \in 1..Len(cs) :
          \E p \in 1..Len(groups) :
             groups[p].name = (IF cs[i][field] = NULL THEN "Unknown" ELSE cs[i][field])

\* C16: for the dimensions region, implementing office, status and source of
\* funds, the aggregation puts every input record in exactly one group, a
\* record without the value in the group named "Unknown", so the groups'
\* counts add up to the number of input records.
C16_CountConservation ==
    result.done
        => /\ Partitions(result.aggregates.by_region, given, "region")
           /\ Partitions(result.aggregates.by_implementing_office, given,
                         "implementing_office")
           /\ Partitions(result.aggregates.by_status, given, "status")
           /\ Partitions(result.aggregates.by_source_of_funds, given, "source_of_funds")

\* three records, one without region, were aggregated into an "Unknown"
\* group and a named group
C16_Witness ==
    /\ result.done
    /\ Len(given) = 3
    /\ \E i \in 1..3 : given[i].region = NULL
    /\ \E p \in 1..Len(result.aggregates.by_region) :
          result.aggregates.by_region[p].name = "Unknown"
    /\ \E p \in 1..Len(result.aggregates.by_region) :
          /\ result.aggregates.by_region[p].name = "NCR"
          /\ result.aggregates.by_region[p].count = 2

\* how many of the record's contractor slots hold a name
NamesOf(c) == Len(getContractorNames(c))

\* the number of records that have at least one contractor
WithContractor(cs) == Cardinality({i \in 1..Len(cs) : NamesOf(cs[i]) >= 1})

\* C17 as stated: the contractor groups' counts add up to at least the number
\* of records that have a contractor, and to exactly that number only when
\* every record has exactly one contractor.
C17_FanOutOnlyWhenAllSingle ==
    result.done
        => /\ CountSum(result.aggregates.by_contractor) >= WithContractor(given)
           /\ CountSum(result.aggregates.by_contractor) = WithContractor(given)
                 => \A i \in 1..Len(given) : NamesOf(given[i]) = 1

\* C17: the contractor groups' counts add up to at least the number of
\* records that have a contractor, and to exactly that number if and only if
\* no record names more than one contractor (a record without contractor adds
\* to neither side).
C17_FanOut ==
    result.done
        => /\ CountSum(result.aggregates.by_contractor) >= WithContractor(given)
           /\ CountSum(result.aggregates.by_contractor) = WithContractor(given)
                 <=> \A i \in 1..Len(given) : NamesOf(given[i]) <= 1

\* a record with two contractors, one with one and one with none were
\* aggregated: three contributions from two records
C17_Witness ==
    /\ result.done
    /\ Len(given) = 3
    /\ {NamesOf(given[i]) : i \in 1..3} = {0, 1, 2}
    /\ CountSum(result.aggregates.by_contractor) = 3
    /\ WithContractor(given) = 2

\* the sum of the costs of the records at the positions in `at`, a missing
\* cost counted as 0
RECURSIVE CostSum(_, _)
CostSum(cs, at) ==
    IF at = {} THEN 0
    ELSE LET i == CHOOSE j \in at : TRUE
         IN  (IF cs[i].cost_php = NoNum THEN 0 ELSE cs[i].cost_php[1])
                + CostSum(cs, at \ {i})

\* the fraction is a number, and it is n / d
IsQuotient(avg, n, d) == avg.den # 0 /\ d # 0 /\ avg.num * d = n * avg.den

\* the group's figures are those of the records at the positions in `at`
GroupOf(group, cs, at) ==
    /\ group.total_value = CostSum(cs, at)
    /\ group.count = Cardinality(at)
    /\ IsQuotient(group.avg_value, group.total_value,
                  IF group.count > 1 THEN group.count ELSE 1)

\* every group of an aggregation over `field` has the figures of the records
\* with its key
GroupsOf(groups, cs, field) ==
    \A p \in 1..Len(groups) :
       GroupOf(groups[p], cs,
               {i \in 1..Len(cs) :
                  groups[p].name = (IF cs[i][field] = NULL THEN "Unknown"
                                    ELSE cs[i][field])})

\* C18: in every group of every aggregation, total_value is the sum of the
\* costs of the group's contributing records (a missing cost counted as 0),
\* count is the number of contributing records, and avg_value is
\* total_value / max(1, count); the summary has the figures of all records
\* and an avg_value of 0 on an empty input; no avg_value is undefined.
C18_GroupFigures ==
    result.done
        => /\ \A p \in 1..Len(result.aggregates.by_contractor) :
                 GroupOf(result.aggregates.by_contractor[p], given,
                         {i \in 1..Len(given) :
                            \E j \in 1..NamesOf(given[i]) :
                               getContractorNames(given[i])[j]
                                  = result.aggregates.by_contractor[p].name})
           /\ GroupsOf(result.aggregates.by_region, given, "region")
           /\ GroupsOf(result.aggregates.by_implementing_office, given,
                       "implementing_office")
           /\ GroupsOf(result.aggregates.by_status, given, "status")
           /\ GroupsOf(result.aggregates.by_source_of_funds, given, "source_of_funds")
           /\ result.aggregates.summary[1].count = Len(given)
           /\ result.aggregates.summary[1].total_value = CostSum(given, 1..Len(given))
           /\ IF Len(given) = 0
              THEN IsQuotient(result.aggregates.summary[1].avg_value, 0, 1)
              ELSE IsQuotient(result.aggregates.summary[1].avg_value,
                              result.aggregates.summary[1].total_value, Len(given))

\* C19: after any sequence of next/previous page, page-size, filter and sort
\* actions on the contracts table, the current page is at least 1 and at most
\* ceil(filteredCount / pageSize), taken as 1 when the filtered result is
\* empty.
C19_PageInRange ==
    /\ 1 <= explorer.pagination.page
    /\ explorer.pagination.page <= (IF totalCount = 0 THEN 1 ELSE tableTotalPages)

\* C20: for every sorted list S and page size n >= 1, the windows
\* slice((p-1)*n, p*n) for p = 1..ceil(|S|/n), put one after the other,
\* are S: what has been read after p pages is the first min(p*n, |S|)
\* records of S, each once, and after the last page it is all of S.
C20_PagesCover ==
    /\ result.read = SubSeq(given.items, 1,
                            IF result.page * given.size < Len(given.items)
                            THEN result.page * given.size ELSE Len(given.items))
    /\ result.page = CeilDiv(Len(given.items), given.size) => result.read = given.items

\* three pages were read, the last of them not full
C20_Witness ==
    /\ result.page = 3
    /\ result.page = CeilDiv(Len(given.items), given.size)
    /\ Len(given.items) % given.size # 0
    /\ result.read = given.items

\* C28: for every record list and filter spec, the records the analytics hook
\* aggregates (year filter 'all') are the records the table's filter returns,
\* so the analytics summary count equals the table's total count.
C28_SameRecords ==
    ("table" \in result.done /\ "analytics" \in result.done)
        => /\ ~result.table.threw
           /\ Records(result.analytics) = Records(result.table.value)
           /\ getContractsAggregates(result.analytics).summary[1].count
                 = Len(result.table.value)

\* C23: in the drill-down contracts tab, sorting by cost_php or by year puts
\* every record without a value for that field after every record with one,
\* in both directions.
C23_DrillDownNullsLast ==
    ("sorted" \in result.done /\ given.sortConfig.field \in {"cost_php", "year"})
        => \A i \in 1..(Len(result.sorted) - 1) :
              IsNullish(result.sorted[i], given.sortConfig.field)
                 => IsNullish(result.sorted[i + 1], given.sortConfig.field)

\* C24: in every state with an open drill-down, the drill-down's aggregates by
\* region, by implementing office and by status each partition the drill-down
\* subset: every record is counted in exactly one group of each dimension (a
\* missing value under "Unknown"), so the group counts add up to the size of
\* the subset.
C24_DrillDownPartitions ==
    (drillDown.open /\ Len(drillDown.breadcrumbs) > 0)
        => /\ Partitions(DDAggregates.by_region, DDContracts, "region")
           /\ Partitions(DDAggregates.by_implementing_office, DDContracts,
                         "implementing_office")
           /\ Partitions(DDAggregates.by_status, DDContracts, "status")

\* a change of the hash to exactly '#analytics' while the modal shows Drilled(k)
BackToAnalytics ==
    /\ analyticsOpen /\ drillDown.open /\ Len(drillDown.breadcrumbs) > 0
    /\ UrlNavigate("#analytics")

\* C25: while the analytics modal is open in Drilled(k), a change of the hash
\* to exactly '#analytics' puts the drill-down in Closed (open = false, no
\* breadcrumbs), whatever preceded it, so that the drill-down state agrees
\* with the breadcrumbs the hash encodes.
C25_BackCloses ==
    [][BackToAnalytics => drillDown' = ClosedDrillDown]_vars

\* C26: opening a contract's details from the drill-down contracts tab leaves
\* the breadcrumb trail as it was, and so does closing the details again.
C26_DetailsKeepTrail ==
    [][last'.op \in {"ViewContractDetails", "CloseContractDetails"}
          => drillDown' = drillDown]_vars

\* record c counts for the row `name` of the aggregate list of dimension type
InGroup(c, type, name) ==
    IF type = "contractor"
    THEN \E k \in 1..Len(getContractorNames(c)) : getContractorNames(c)[k] = name
    ELSE OrUnknown(c[type]) = name

\* after the step the drill-down shows exactly the records the row counted
LeadsToGroup(row, type) ==
    /\ drillDown'.open
    /\ \E sub \in {drillDownContracts(contracts', drillDown')} :
          /\ Len(sub) = row.count
          /\ \A k \in 1..Len(sub) : InGroup(sub[k], type, row.name)

\* C27: with no filters active, selecting a row (name, count) of an aggregate
\* list at the top level or in a drill-down tab leads to a Drilled state whose
\* record subset has exactly count records, each belonging to the selected
\* group, rows named "Unknown" and contractors of slots 2 to 4 included.
C27_RowLeadsToItsGroup ==
    [][\A i \in 1..MaxRow :
          /\ TopEntityClick(i) => LeadsToGroup(paginatedData[i], TypeOfDimension(dimension))
          /\ RowClick(i) => LeadsToGroup(paginatedEntityData[i], TypeOfTab(drillDownActiveTab))]_vars

\* the load has read the three cache keys
HasReadCache(l) == l.pc \notin {"metadata", "getContracts", "getAggregates", "getTimestamp"}

\* the load read both cache entries and a timestamp equal to stamp
ReadValid(l, stamp) ==
    l.cached # Undefined /\ l.cachedAgg # Undefined /\ l.cachedTimestamp = stamp

\* a load that is not forced and read a cache that stamp validates returned
\* what it read, without downloading and without writing
ServedFromCache(l, stamp) ==
    ~l.forceReload /\ HasReadCache(l) /\ ReadValid(l, stamp)
        => /\ l.pc = "done" /\ ~l.downloaded /\ ~l.wrote
           /\ l.returned = <<[contracts |-> l.cached[1], aggregates |-> l.cachedAgg[1]]>>

\* the step is the return of load p after its download
CompletesDownload(p) ==
    p <= Len(loads) /\ loads[p].pc = "setTimestamp" /\ loads'[p].pc = "done"

C30_HitReadsOneWrite ==
    \A p \in 1..Len(loads) :
        loads[p].pc = "done" /\ loads[p].hit
            => /\ loads[p].from.contracts = loads[p].from.timestamp
               /\ loads[p].from.aggregates = loads[p].from.timestamp

\* every load that was started has stored its outcome
AllSettled == \A p \in 1..Len(loads) : ~InFlight(loads[p])

\* C21: if a reload is started while an earlier load is in flight, then once
\* both have completed the exposed record set and filter-option aggregates
\* are those the load started last returned, whatever the order in which the
\* two complete.
C21_LastLoadWins ==
    Len(loads) > 1 /\ AllSettled /\ loads[Len(loads)].concurrent
                   /\ loads[Len(loads)].returned # Undefined
        => /\ provider.contracts = loads[Len(loads)].returned[1].contracts
           /\ provider.aggregates = <<loads[Len(loads)].returned[1].aggregates>>

\* the step is the return of a call of initialize() by load p
InitializeResolves(p) ==
    /\ p <= Len(loads)
    /\ loads[p].pc \in {"init1", "init2", "init3", "register", "waiting"}
    /\ loads'[p].pc = IF loads[p].pc \in {"register", "waiting"}
                      THEN loads[p].resume ELSE AfterInitialize(loads[p].pc)

\* C29: whenever a call of initialize() resolves without throwing, the
\* service is initialized (connection open, data registered), also for a
\* caller that waited while another caller's initialization failed; and at
\* most one initialization body runs at a time.
C29_ResolvedMeansInitialized ==
    [][/\ \A p \in 1..Len(loads') :
             InitializeResolves(p)
                 => service'.initialized /\ service'.conn /\ service'.registered # Undefined
       /\ service'.bodies <= 1]_vars

=============================================================================
